---- MODULE Spec2Model ----
(***************************************************************************)
(* Model of the resident-route simulation of gtown_hack:                   *)
(* app/components/ui/SimulationLayer.tsx (the component exported at lines  *)
(* 375-785: getRoute, findNearestStore, startAnimation, the initialize /   *)
(* cleanup effect and reloadAndReroute).                                    *)
(*                                                                         *)
(* JavaScript runs one task at a time.  Each action below is one task: a   *)
(* timer callback, a fetch settling, an animation frame, a React effect or *)
(* its cleanup, together with every continuation that runs synchronously   *)
(* (or as a microtask) after it, up to the next await that has to wait for *)
(* a timer or for the network.                                             *)
(***************************************************************************)
EXTENDS Integers, Sequences, FiniteSets, TLC

(***************************************************************************)
(* Bounds of the model.                                                    *)
(***************************************************************************)
\* Date.now() when the component is first mounted (any value >= 300 ms).
StartTime == 1000
\* The clock is not advanced past StartTime + MaxElapsed.
MaxElapsed == 1200
\* Granularity of the clock, in ms.
TimeStep == 300
\* Animation frames run in one behaviour.
MaxTicks == 1
\* Directions requests sent in one behaviour.
MaxRequests == 5

(***************************************************************************)
(* Points, stores, routes.                                                 *)
(* A point is <<lng, lat>> on an integer grid.                             *)
(***************************************************************************)
Reverse(s) == [k \in 1..Len(s) |-> s[Len(s) + 1 - k]]

\* let minDistance = Infinity
Infinity == 1000000

\* turf.distance(turf.point(a), turf.point(b)): the library's great-circle
\* distance, modelled on the grid by the squared straight-line distance
\* (it orders pairs of points the same way over the few blocks a resident
\* walks).
distance(a, b) == (a[1] - b[1]) * (a[1] - b[1]) + (a[2] - b[2]) * (a[2] - b[2])

\* One store feature of a store collection: { geometry: { coordinates } }.
Store(pt) == [coordinates |-> pt]

\* findNearestStore's forEach over stores.features, from feature k on, with
\* the loop's two locals.
RECURSIVE NearestLoop(_, _, _, _, _)
NearestLoop(point, features, k, nearest, minDistance) ==
    IF k > Len(features) THEN nearest
    ELSE LET storeCoords == features[k].coordinates
             d == distance(point, storeCoords)
         IN  IF d < minDistance
             THEN NearestLoop(point, features, k + 1, storeCoords, d)
             ELSE NearestLoop(point, features, k + 1, nearest, minDistance)

\* A findNearestStore that keeps the last store that beats the initial
\* minDistance: minDistance is never lowered.
RECURSIVE NearestLoopNoMin(_, _, _, _, _)
NearestLoopNoMin(point, features, k, nearest, minDistance) ==
    IF k > Len(features) THEN nearest
    ELSE LET storeCoords == features[k].coordinates
             d == distance(point, storeCoords)
         IN  IF d < minDistance
             THEN NearestLoopNoMin(point, features, k + 1, storeCoords, minDistance)
             ELSE NearestLoopNoMin(point, features, k + 1, nearest, minDistance)

findNearestStore_noMinUpdate(point, stores) ==
    NearestLoopNoMin(point, stores, 1, point, Infinity)

\* A findNearestStore that compares with <=: of the stores at the least
\* distance it keeps the last.
RECURSIVE NearestLoopLastTie(_, _, _, _, _)
NearestLoopLastTie(point, features, k, nearest, minDistance) ==
    IF k > Len(features) THEN nearest
    ELSE LET storeCoords == features[k].coordinates
             d == distance(point, storeCoords)
         IN  IF d <= minDistance
             THEN NearestLoopLastTie(point, features, k + 1, storeCoords, d)
             ELSE NearestLoopLastTie(point, features, k + 1, nearest, minDistance)

findNearestStore_lastOnTie(point, stores) ==
    NearestLoopLastTie(point, stores, 1, point, Infinity)

\* A findNearestStore whose `nearest` starts as [0, 0], not as the point.
findNearestStore_zeroStart(point, stores) ==
    NearestLoop(point, stores, 1, <<0, 0>>, Infinity)

\* findNearestStore(point, stores): nearest starts as the query point.
findNearestStore(point, stores) ==
    NearestLoop(point, stores, 1, point, Infinity)

(***************************************************************************)
(* Route cache keys.  A key is the template string                         *)
(*   `${start[0]},${start[1]}-${end[0]},${end[1]}`                         *)
(* modelled as the sequence of its tokens: a number prints as its          *)
(* magnitude, preceded by "-" when negative, and that minus sign is the    *)
(* same character as the separator between start and end.                  *)
(***************************************************************************)
DigitChar == <<"0", "1", "2", "3", "4", "5", "6", "7", "8", "9">>

RECURSIVE Digits(_)
Digits(n) ==
    IF n < 10 THEN <<DigitChar[n + 1]>>
    ELSE Digits(n \div 10) \o <<DigitChar[(n % 10) + 1]>>

\* Number.prototype.toString of an integer coordinate.
NumStr(n) == IF n < 0 THEN <<"-">> \o Digits(-n) ELSE Digits(n)

cacheKey(start, end) ==
    NumStr(start[1]) \o <<",">> \o NumStr(start[2]) \o <<"-">>
        \o NumStr(end[1]) \o <<",">> \o NumStr(end[2])

reverseKey(start, end) ==
    NumStr(end[1]) \o <<",">> \o NumStr(end[2]) \o <<"-">>
        \o NumStr(start[1]) \o <<",">> \o NumStr(start[2])

\* Map.has / Map.get / Map.set on routeCacheRef.current.
CacheHas(cache, key) == key \in DOMAIN cache
CacheSet(cache, key, value) ==
    [x \in DOMAIN cache \cup {key} |-> IF x = key THEN value ELSE cache[x]]

\* The walking route the directions provider computes from start to end:
\* along the start's latitude first, then along the end's longitude.  The
\* provider's route from end to start is in general not this one reversed.
ProviderRoute(start, end) == <<start, <<end[1], start[2]>>, end>>

\* What one directions request can come to.
Outcomes == {"ok", "http_error", "network_error", "bad_json", "no_routes", "short"}

(***************************************************************************)
(* Inputs.                                                                 *)
(***************************************************************************)
\* /data/start_point.json, in Object.entries order.
StartPoints ==
    << [tractId |-> "T1", coordinates |-> <<0, 0>>],
       [tractId |-> "T2", coordinates |-> <<6, 0>>] >>

\* What Math.random() gives for one origin: the two offsets
\* (Math.random() - 0.5) * 0.0001 of the home, in grid units; progress, in
\* units of 1/ONE (see below); and isReturning, Math.random() > 0.5.
RandomDraws ==
    { [offset |-> <<0, 0>>, progress |-> 0, isReturning |-> FALSE],
      [offset |-> <<-1, 0>>, progress |-> 9975, isReturning |-> TRUE] }

\* /data/Grocery_Store_Locations.geojson
GroceryStores == << Store(<<0, 4>>), Store(<<6, 4>>) >>

\* What /api/get-stores can answer (the stores collection changes as stores
\* are dropped on the map).
StoreSets ==
    { << >>,
      << Store(<<6, 2>>), Store(<<0, 2>>) >>,
      << Store(<<0, 1>>), Store(<<0, 4>>), Store(<<6, 4>>) >> }


(***************************************************************************)
(* The animation tick (startAnimation, lines 459-489).                     *)
(* progress is a double in [0, 1]; it is modelled in units of 1/ONE.       *)
(***************************************************************************)
\* person.progress >= 1
ONE == 10000
\* const FIXED_SPEED = 0.0025, in units of 1/ONE
FIXED_SPEED == 25

\* An addition of half the increment.
AddSpeed_half(progress, roundsBelow) == progress + (FIXED_SPEED \div 2)

\* person.progress += FIXED_SPEED in IEEE doubles.  0.0025 is not a binary
\* fraction, so a sum that is exactly 1 in real arithmetic may come out one
\* rounding error below 1 (0.0025 added 400 times to 0 gives
\* 0.99999999999999). roundsBelow says this addition does.
AddSpeed(progress, roundsBelow) ==
    IF progress + FIXED_SPEED = ONE /\ roundsBelow
    THEN ONE - 1
    ELSE progress + FIXED_SPEED

\* turf.along(line, progress * turf.length(line)): the point at that
\* fraction of the line's length, kept as the fraction and the line.
along(line, progress) == [line |-> line, at |-> progress]

\* new mapboxgl.Marker(...).setLngLat(home).addTo(map)
NewMarker(home) == [onMap |-> TRUE, lngLat |-> along(<<home>>, 0)]

\* A tick's body that has lost its `if (route.length < 2) return`.
animatePerson_noGuard(person, roundsBelow) ==
    LET route == IF person.isReturning THEN Reverse(person.route)
                                       ELSE person.route
        sum   == AddSpeed(person.progress, roundsBelow)
    IN  [ moved    |-> TRUE,
          position |-> along(route, person.progress),
          person   |-> IF sum >= ONE
                       THEN [person EXCEPT !.progress = 0,
                                           !.isReturning = ~person.isReturning]
                       ELSE [person EXCEPT !.progress = sum] ]

\* A tick's body that flips the direction at the wrap but leaves progress
\* where it is.
animatePerson_noReset(person, roundsBelow) ==
    LET route == IF person.isReturning THEN Reverse(person.route)
                                       ELSE person.route
        sum   == AddSpeed(person.progress, roundsBelow)
    IN  IF Len(route) < 2
        THEN [moved |-> FALSE, position |-> along(route, 0), person |-> person]
        ELSE [ moved    |-> TRUE,
               position |-> along(route, person.progress),
               person   |-> IF sum >= ONE
                            THEN [person EXCEPT !.progress = sum,
                                                !.isReturning = ~person.isReturning]
                            ELSE [person EXCEPT !.progress = sum] ]

\* A tick's body that wraps on > 1 instead of >= 1.
animatePerson_strictWrap(person, roundsBelow) ==
    LET route == IF person.isReturning THEN Reverse(person.route)
                                       ELSE person.route
        sum   == AddSpeed(person.progress, roundsBelow)
    IN  IF Len(route) < 2
        THEN [moved |-> FALSE, position |-> along(route, 0), person |-> person]
        ELSE [ moved    |-> TRUE,
               position |-> along(route, person.progress),
               person   |-> IF sum > ONE
                            THEN [person EXCEPT !.progress = 0,
                                                !.isReturning = ~person.isReturning]
                            ELSE [person EXCEPT !.progress = sum] ]

\* A tick's body that sets progress to 0 at the wrap and keeps the
\* direction.
animatePerson_noFlip(person, roundsBelow) ==
    LET route == IF person.isReturning THEN Reverse(person.route)
                                       ELSE person.route
        sum   == AddSpeed(person.progress, roundsBelow)
    IN  IF Len(route) < 2
        THEN [moved |-> FALSE, position |-> along(route, 0), person |-> person]
        ELSE [ moved    |-> TRUE,
               position |-> along(route, person.progress),
               person   |-> IF sum >= ONE
                            THEN [person EXCEPT !.progress = 0]
                            ELSE [person EXCEPT !.progress = sum] ]

\* A tick's body that adds the increment first and then reads the position
\* off the new progress.
animatePerson_positionAfter(person, roundsBelow) ==
    LET route == IF person.isReturning THEN Reverse(person.route)
                                       ELSE person.route
        sum   == AddSpeed(person.progress, roundsBelow)
    IN  IF Len(route) < 2
        THEN [moved |-> FALSE, position |-> along(route, 0), person |-> person]
        ELSE [ moved    |-> TRUE,
               position |-> along(route, IF sum >= ONE THEN 0 ELSE sum),
               person   |-> IF sum >= ONE
                            THEN [person EXCEPT !.progress = 0,
                                                !.isReturning = ~person.isReturning]
                            ELSE [person EXCEPT !.progress = sum] ]

\* A tick's body that reverses person.route itself on the way back, as
\* person.route.reverse() without the copy does.
animatePerson_reverseInPlace(person, roundsBelow) ==
    LET route == IF person.isReturning THEN Reverse(person.route)
                                       ELSE person.route
        sum   == AddSpeed(person.progress, roundsBelow)
    IN  IF Len(route) < 2
        THEN [moved |-> FALSE, position |-> along(route, 0),
              person |-> [person EXCEPT !.route = route]]
        ELSE [ moved    |-> TRUE,
               position |-> along(route, person.progress),
               person   |-> IF sum >= ONE
                            THEN [person EXCEPT !.progress = 0,
                                                !.isReturning = ~person.isReturning,
                                                !.route = route]
                            ELSE [person EXCEPT !.progress = sum,
                                                !.route = route] ]

\* The body of the forEach in animate, for one person: whether the marker
\* is moved, where to, and the person afterwards.
animatePerson(person, roundsBelow) ==
    LET route == IF person.isReturning THEN Reverse(person.route)
                                       ELSE person.route
        sum   == AddSpeed(person.progress, roundsBelow)
    IN  IF Len(route) < 2
        THEN [moved |-> FALSE, position |-> along(route, 0), person |-> person]
        ELSE [ moved    |-> TRUE,
               position |-> along(route, person.progress),
               person   |-> IF sum >= ONE
                            THEN [person EXCEPT !.progress = 0,
                                                !.isReturning = ~person.isReturning]
                            ELSE [person EXCEPT !.progress = sum] ]

Range(s) == {s[k] : k \in DOMAIN s}
Max(a, b) == IF a >= b THEN a ELSE b
Min(a, b) == IF a <= b THEN a ELSE b

(***************************************************************************)
(* State.                                                                  *)
(***************************************************************************)
VARIABLES
    clock,           \* Date.now()
    gen,             \* how many times the effect of lines 491-603 has run
    mounted,         \* the `mounted` flag of each run of the effect
    init,            \* the initialize() call of each run of the effect
    reload,          \* the reloadAndReroute() calls
    call,            \* the getRoute call each of them is awaiting, if any
    persons,         \* the Person objects, by object identity
    markers,         \* the mapboxgl.Marker objects, by object identity
    peopleRef,       \* peopleRef.current: an array of Person objects
    routeCacheRef,   \* routeCacheRef.current
    lastRequestRef,  \* lastRequestRef.current
    animationRef,    \* animationRef.current
    frames,          \* the requestAnimationFrame callbacks not yet run
    loading,         \* the loading state of the component
    ticks,           \* history: animation frames run
    requests,        \* history: how many directions requests were sent, when
                     \* the last one was, the least time between two of them
    client,          \* a caller of getRoute that awaits one call after another
    lastRet,         \* history: what the client's last getRoute call returned
    obtained,        \* history: the routes the provider delivered to the client
    anim,            \* history of a tick run: the person at the start, the flips
    fn               \* the last findNearestStore call and its result

vars == << clock, gen, mounted, init, reload, call, persons, markers, peopleRef,
           routeCacheRef, lastRequestRef, animationRef, frames, loading, ticks,
           requests, lastRet, obtained, client, anim, fn >>

\* The runs of the effect, the reloadAndReroute calls, and the callers of
\* getRoute.
Gens == {1, 2}
ReloadIds == {1, 2}
InitProc(g) == <<"init", g>>
ReloadProc(k) == <<"reload", k>>
ClientProc == <<"client", 1>>
RaceProcs == {ClientProc, <<"client", 2>>}
Procs == {InitProc(g) : g \in Gens} \cup {ReloadProc(k) : k \in ReloadIds}
             \cup RaceProcs

Origin == <<0, 0>>
NoCall == [pc |-> "none", start |-> Origin, end |-> Origin, wake |-> 0]
NoDraw == [offset |-> Origin, progress |-> 0, isReturning |-> FALSE]
NoInit == [pc |-> "idle", i |-> 0, people |-> << >>, stores |-> << >>,
           home |-> Origin, targetStore |-> Origin, marker |-> 0, wake |-> 0,
           draw |-> NoDraw]
NoReload == [pc |-> "idle", stores |-> << >>, arr |-> << >>, i |-> 0]
NoRet == [settled |-> FALSE, start |-> Origin, end |-> Origin,
          route |-> << >>, fetched |-> FALSE, prior |-> {}]
NoRequests == [count |-> 0, minGap |-> Infinity, last |-> 0]
NoClient == [pc |-> "idle", calls |-> 0, prior |-> {}]
NoAnim == [start |-> << >>, flips |-> 0]
NoFn == [called |-> FALSE, point |-> Origin, stores |-> << >>, result |-> Origin]

\* The component after its first render, before its effects have run.
ComponentInit ==
    /\ clock = StartTime
    /\ gen = 0
    /\ mounted = [g \in Gens |-> FALSE]
    /\ init = [g \in Gens |-> NoInit]
    /\ reload = [k \in ReloadIds |-> NoReload]
    /\ call = [p \in Procs |-> NoCall]
    /\ persons = << >>
    /\ markers = << >>
    /\ peopleRef = << >>
    /\ routeCacheRef = << >>
    /\ lastRequestRef = 0
    /\ animationRef = 0
    /\ frames = {}
    /\ loading = TRUE
    /\ ticks = 0
    /\ requests = NoRequests
    /\ lastRet = NoRet
    /\ obtained = {}

componentVars == << clock, gen, mounted, init, reload, call, persons, markers,
                    peopleRef, routeCacheRef, lastRequestRef, animationRef,
                    frames, loading, ticks, requests, lastRet, obtained >>

(***************************************************************************)
(* getRoute (lines 384-432).                                               *)
(***************************************************************************)
\* The 300 of Math.max(300 - (now - lastRequestRef.current), 0), in ms.
MinSpacing == 300

\* The two cache checks getRoute starts with.
Lookup(cache, start, end) ==
    IF CacheHas(cache, cacheKey(start, end))
    THEN [hit |-> TRUE, route |-> cache[cacheKey(start, end)]]
    ELSE IF CacheHas(cache, reverseKey(start, end))
    THEN [hit |-> TRUE, route |-> Reverse(cache[reverseKey(start, end)])]
    ELSE [hit |-> FALSE, route |-> << >>]

\* The delay getRoute sleeps before its request.
PaceDelay(now, last) == Max(MinSpacing - (now - last), 0)

\* The request throws: fetch rejects, response.ok is false, or
\* response.json() rejects.
Throws(outcome) == outcome \in {"http_error", "network_error", "bad_json"}

\* json.routes?.[0]?.geometry?.coordinates || []
Coordinates(outcome, start, end) ==
    CASE outcome = "ok"        -> ProviderRoute(start, end)
      [] outcome = "short"     -> <<start>>
      [] OTHER                 -> << >>

\* A Settle that stores the route under reverseKey as it came.
Settle_sameBothWays(cache, start, end, outcome) ==
    IF Throws(outcome) THEN [route |-> << >>, cache |-> cache]
    ELSE LET route == Coordinates(outcome, start, end)
         IN  [route |-> route,
              cache |-> IF Len(route) > 1
                        THEN CacheSet(CacheSet(cache, cacheKey(start, end), route),
                                      reverseKey(start, end), route)
                        ELSE cache]

\* A Settle that caches the route under cacheKey only.
Settle_forwardOnly(cache, start, end, outcome) ==
    IF Throws(outcome) THEN [route |-> << >>, cache |-> cache]
    ELSE LET route == Coordinates(outcome, start, end)
         IN  [route |-> route,
              cache |-> IF Len(route) > 1
                        THEN CacheSet(cache, cacheKey(start, end), route)
                        ELSE cache]

\* getRoute from the request's settling on: what it returns and the cache
\* it leaves.
Settle(cache, start, end, outcome) ==
    IF Throws(outcome) THEN [route |-> << >>, cache |-> cache]
    ELSE LET route == Coordinates(outcome, start, end)
         IN  [route |-> route,
              cache |-> IF Len(route) > 1
                        THEN CacheSet(CacheSet(cache, cacheKey(start, end), route),
                                      reverseKey(start, end), Reverse(route))
                        ELSE cache]

\* History: the routes of at least 2 points that the provider delivered
\* for start -> end or for end -> start before a call began.
Prior(start, end) ==
    {t \in obtained : {t[1], t[2]} = {start, end}}

\* History: a getRoute call settled with this route.
Returned(start, end, route, fetched, prior) ==
    [settled |-> TRUE, start |-> start, end |-> end, route |-> route,
     fetched |-> fetched, prior |-> prior]

\* getRoute's timer has fired: it stamps lastRequestRef and sends the
\* request.
GrSend(p) ==
    /\ call[p].pc = "timer"
    /\ clock >= call[p].wake
    /\ requests.count < MaxRequests
    /\ lastRequestRef' = clock
    /\ requests' = [count  |-> requests.count + 1,
                     minGap |-> IF requests.count = 0 THEN requests.minGap
                                ELSE Min(requests.minGap, clock - requests.last),
                     last   |-> clock]
    /\ call' = [call EXCEPT ![p].pc = "fetch"]
    /\ UNCHANGED << clock, gen, mounted, init, reload, persons, markers,
                    peopleRef, routeCacheRef, animationRef, frames, loading,
                    ticks, lastRet, obtained, client, anim, fn >>

\* The state of a getRoute call that missed the cache and sleeps.
Sleeping(start, end) ==
    [pc |-> "timer", start |-> start, end |-> end,
     wake |-> clock + PaceDelay(clock, lastRequestRef)]

\* History: obtained after the request for start -> end came to outcome.
Delivered(start, end, outcome) ==
    IF ~Throws(outcome) /\ Len(Coordinates(outcome, start, end)) >= 2
    THEN obtained \cup {<<start, end, Coordinates(outcome, start, end)>>}
    ELSE obtained

\* Something is waiting for a timer or for the network.
Pending ==
    \/ \E p \in Procs : call[p].pc # "none"
    \/ \E g \in Gens : init[g].pc \in {"origins", "stores", "pace", "finish"}
    \/ \E k \in ReloadIds : reload[k].pc = "load"

\* Time passes (the model lets it pass only while something is waiting).
Advance ==
    /\ Pending
    /\ clock + TimeStep <= StartTime + MaxElapsed
    /\ clock' = clock + TimeStep
    /\ UNCHANGED << gen, mounted, init, reload, call, persons, markers,
                    peopleRef, routeCacheRef, lastRequestRef, animationRef,
                    frames, loading, ticks, requests, lastRet, obtained,
                    client, anim, fn >>

(***************************************************************************)
(* One animation frame: the callback `animate` of startAnimation.          *)
(***************************************************************************)
\* requestAnimationFrame's handle: one no pending callback has.
NewFrame(pending) == CHOOSE f \in 1..(Cardinality(pending) + 1) : f \notin pending

\* The body of animate run by frame f: every person of peopleRef.current
\* is advanced in place, then the next frame is requested.
AnimateFrame(f, roundsBelow) ==
    LET out(id) == animatePerson(persons[id], roundsBelow[id])
        next    == NewFrame(frames \ {f})
    IN  /\ persons' = [id \in DOMAIN persons |->
                          IF id \in Range(peopleRef) THEN out(id).person
                                                     ELSE persons[id]]
        /\ markers' = [m \in DOMAIN markers |->
                          IF \E id \in Range(peopleRef) :
                                 persons[id].marker = m /\ out(id).moved
                          THEN [markers[m] EXCEPT !.lngLat =
                                   out(CHOOSE id \in Range(peopleRef) :
                                           persons[id].marker = m).position]
                          ELSE markers[m]]
        /\ frames' = (frames \ {f}) \cup {next}
        /\ animationRef' = next

\* A frame, counted.
Animate(f, roundsBelow) ==
    /\ AnimateFrame(f, roundsBelow)
    /\ ticks' = ticks + 1

(***************************************************************************)
(* The effect of lines 491-603: initialize and the cleanup.                *)
(***************************************************************************)
\* await new Promise((resolve) => setTimeout(resolve, 300)) of the loop
InitPace == 300
\* setTimeout(() => { if (mounted) setLoading(false) }, 500)
FinishDelay == 500

\* The object identity of the marker (and of the person, if one is made)
\* of origin i in run g of the effect.
ObjectId(g, i) == (g - 1) * Len(StartPoints) + i

Extend(f, x, v) == [y \in DOMAIN f \cup {x} |-> IF y = x THEN v ELSE f[y]]

\* startAnimation(): the first frame is requested.
StartAnimation ==
    LET next == NewFrame(frames)
    IN  /\ frames' = frames \cup {next}
        /\ animationRef' = next

\* Lines 579-589: what initialize does once its loop is left, with the
\* array `people` it has built.
AfterLoop(g, people) ==
    /\ peopleRef' = people
    /\ IF Len(people) > 0 THEN StartAnimation
                          ELSE UNCHANGED << frames, animationRef >>
    /\ init' = [init EXCEPT ![g] = [NoInit EXCEPT !.pc = "finish",
                                                  !.people = people,
                                                  !.wake = clock + FinishDelay]]
    /\ UNCHANGED << call, persons, markers >>

\* A Candidate that gives every person the id of the first origin.
Candidate_sameId(g, i, home, targetStore, route, draw, withMarkers, stores) ==
    LET id == ObjectId(g, i)
    IN        IF Len(route) > 1
              THEN /\ persons' = Extend(persons, id,
                          [id |-> <<"person", StartPoints[1].tractId>>,
                           marker |-> id, home |-> home,
                           targetStore |-> targetStore,
                           progress |-> draw.progress,
                           isReturning |-> draw.isReturning, route |-> route,
                           tractId |-> StartPoints[i].tractId])
                   /\ markers' = withMarkers
                   /\ init' = [init EXCEPT ![g] =
                          [NoInit EXCEPT !.pc = "pace", !.i = i,
                                         !.people = Append(init[g].people, id),
                                         !.stores = stores,
                                         !.wake = clock + InitPace]]
              ELSE /\ persons' = persons
                   /\ markers' = [withMarkers EXCEPT ![id].onMap = FALSE]
                   /\ init' = [init EXCEPT ![g] =
                          [NoInit EXCEPT !.pc = "pace", !.i = i,
                                         !.people = init[g].people,
                                         !.stores = stores,
                                         !.wake = clock + InitPace]]

\* A Candidate that leaves the marker of a discarded candidate on the map.
Candidate_keepMarker(g, i, home, targetStore, route, draw, withMarkers, stores) ==
    LET id == ObjectId(g, i)
    IN        IF Len(route) > 1
              THEN /\ persons' = Extend(persons, id,
                          [id |-> <<"person", StartPoints[i].tractId>>,
                           marker |-> id, home |-> home,
                           targetStore |-> targetStore,
                           progress |-> draw.progress,
                           isReturning |-> draw.isReturning, route |-> route,
                           tractId |-> StartPoints[i].tractId])
                   /\ markers' = withMarkers
                   /\ init' = [init EXCEPT ![g] =
                          [NoInit EXCEPT !.pc = "pace", !.i = i,
                                         !.people = Append(init[g].people, id),
                                         !.stores = stores,
                                         !.wake = clock + InitPace]]
              ELSE /\ persons' = persons
                   /\ markers' = withMarkers
                   /\ init' = [init EXCEPT ![g] =
                          [NoInit EXCEPT !.pc = "pace", !.i = i,
                                         !.people = init[g].people,
                                         !.stores = stores,
                                         !.wake = clock + InitPace]]

\* Lines 551-575: the candidate of origin i when its route has arrived.
\* The marker was put on the map before the route was asked for.
Candidate(g, i, home, targetStore, route, draw, withMarkers, stores) ==
    LET id == ObjectId(g, i)
    IN        IF Len(route) > 1
              THEN /\ persons' = Extend(persons, id,
                          [id |-> <<"person", StartPoints[i].tractId>>,
                           marker |-> id, home |-> home,
                           targetStore |-> targetStore,
                           progress |-> draw.progress,
                           isReturning |-> draw.isReturning, route |-> route,
                           tractId |-> StartPoints[i].tractId])
                   /\ markers' = withMarkers
                   /\ init' = [init EXCEPT ![g] =
                          [NoInit EXCEPT !.pc = "pace", !.i = i,
                                         !.people = Append(init[g].people, id),
                                         !.stores = stores,
                                         !.wake = clock + InitPace]]
              ELSE /\ persons' = persons
                   /\ markers' = [withMarkers EXCEPT ![id].onMap = FALSE]
                   /\ init' = [init EXCEPT ![g] =
                          [NoInit EXCEPT !.pc = "pace", !.i = i,
                                         !.people = init[g].people,
                                         !.stores = stores,
                                         !.wake = clock + InitPace]]

\* An Iteration that does not await getRoute: it goes on to the pause of
\* line 575 with the call still open.
Iteration_noAwait(g, i, stores) ==
    \E draw \in RandomDraws :
        LET coordinates == StartPoints[i].coordinates
            home        == <<coordinates[1] + draw.offset[1],
                             coordinates[2] + draw.offset[2]>>
            targetStore == findNearestStore(home, stores)
            id          == ObjectId(g, i)
            withMarker  == Extend(markers, id, NewMarker(home))
            found       == Lookup(routeCacheRef, home, targetStore)
        IN  /\ UNCHANGED << peopleRef, frames, animationRef >>
            /\ IF found.hit
               THEN /\ Candidate(g, i, home, targetStore, found.route, draw,
                                 withMarker, stores)
                    /\ call' = call
               ELSE /\ markers' = withMarker
                    /\ persons' = persons
                    /\ call' = [call EXCEPT ![InitProc(g)] = Sleeping(home, targetStore)]
                    /\ init' = [init EXCEPT ![g] =
                           [NoInit EXCEPT !.pc = "pace", !.i = i,
                                          !.wake = clock + InitPace,
                                          !.people = init[g].people,
                                          !.stores = stores,
                                          !.home = home,
                                          !.targetStore = targetStore,
                                          !.marker = id,
                                          !.draw = draw]]

\* Lines 522-550: one pass of the loop for origin i, up to the first await
\* that has to wait.
Iteration(g, i, stores) ==
    \E draw \in RandomDraws :
        LET coordinates == StartPoints[i].coordinates
            home        == <<coordinates[1] + draw.offset[1],
                             coordinates[2] + draw.offset[2]>>
            targetStore == findNearestStore(home, stores)
            id          == ObjectId(g, i)
            withMarker  == Extend(markers, id, NewMarker(home))
            found       == Lookup(routeCacheRef, home, targetStore)
        IN  /\ UNCHANGED << peopleRef, frames, animationRef >>
            /\ IF found.hit
               THEN /\ Candidate(g, i, home, targetStore, found.route, draw,
                                 withMarker, stores)
                    /\ call' = call
               ELSE /\ markers' = withMarker
                    /\ persons' = persons
                    /\ call' = [call EXCEPT ![InitProc(g)] = Sleeping(home, targetStore)]
                    /\ init' = [init EXCEPT ![g] =
                           [NoInit EXCEPT !.pc = "route", !.i = i,
                                          !.people = init[g].people,
                                          !.stores = stores,
                                          !.home = home,
                                          !.targetStore = targetStore,
                                          !.marker = id,
                                          !.draw = draw]]

\* The effect body: let mounted = true; initialize() up to its first await.
RunEffect(g) ==
    /\ gen' = g
    /\ loading' = TRUE
    /\ init' = [init EXCEPT ![g] = [NoInit EXCEPT !.pc = "origins"]]

\* The cleanup of the effect.
Cleanup ==
    /\ frames' = frames \ {animationRef}
    /\ markers' = [m \in DOMAIN markers |->
                      IF \E k \in DOMAIN peopleRef : persons[peopleRef[k]].marker = m
                      THEN [markers[m] EXCEPT !.onMap = FALSE]
                      ELSE markers[m]]

\* The component is mounted: the effect runs for the first time.
Mount ==
    /\ gen = 0
    /\ RunEffect(1)
    /\ mounted' = [mounted EXCEPT ![1] = TRUE]
    /\ UNCHANGED << clock, reload, call, persons, markers, peopleRef,
                    routeCacheRef, lastRequestRef, animationRef, frames, ticks,
                    requests, lastRet, obtained, client, anim, fn >>

\* A dependency of the effect changes (the map), or React runs the effect
\* twice as its strict mode does: the cleanup and then the effect again,
\* in one task.
Remount ==
    /\ gen >= 1 /\ mounted[gen] /\ gen + 1 \in Gens
    /\ Cleanup
    /\ RunEffect(gen + 1)
    /\ mounted' = [mounted EXCEPT ![gen] = FALSE, ![gen + 1] = TRUE]
    /\ UNCHANGED << clock, reload, call, persons, peopleRef, routeCacheRef,
                    lastRequestRef, animationRef, ticks, requests, lastRet,
                    obtained, client, anim, fn >>

\* The component is unmounted: React runs the cleanup.
Unmount ==
    /\ gen >= 1 /\ mounted[gen]
    /\ Cleanup
    /\ mounted' = [mounted EXCEPT ![gen] = FALSE]
    /\ UNCHANGED << clock, gen, init, reload, call, persons, peopleRef,
                    routeCacheRef, lastRequestRef, animationRef, loading, ticks,
                    requests, lastRet, obtained, client, anim, fn >>

\* An InitOrigins whose failed load is caught without setLoading(false).
InitOrigins_noCatch(g) ==
    /\ init[g].pc = "origins"
    /\ \E ok \in BOOLEAN :
          IF ok
          THEN /\ init' = [init EXCEPT ![g].pc = "stores"]
               /\ loading' = loading
          ELSE /\ init' = [init EXCEPT ![g].pc = "failed"]
               /\ loading' = loading
    /\ UNCHANGED << clock, gen, mounted, reload, call, persons, markers,
                    peopleRef, routeCacheRef, lastRequestRef, animationRef,
                    frames, ticks, requests, lastRet, obtained, client, anim, fn >>

\* Lines 500-506: /data/start_point.json has loaded, or has not.
InitOrigins(g) ==
    /\ init[g].pc = "origins"
    /\ \E ok \in BOOLEAN :
          IF ok
          THEN /\ init' = [init EXCEPT ![g].pc = "stores"]
               /\ loading' = loading
          ELSE /\ init' = [init EXCEPT ![g].pc = "failed"]
               /\ loading' = FALSE
    /\ UNCHANGED << clock, gen, mounted, reload, call, persons, markers,
                    peopleRef, routeCacheRef, lastRequestRef, animationRef,
                    frames, ticks, requests, lastRet, obtained, client, anim, fn >>

\* Lines 508-550: the stores file has loaded (it holds one of files), or
\* has not; if it has, the loop over the origins begins.  Lines 590-592:
\* a failed load is caught, logged, and loading is set to false.
InitStoresFrom(g, files) ==
    /\ init[g].pc = "stores"
    /\ \E ok \in BOOLEAN :
          IF ok
          THEN /\ \E stores \in files :
                      IF Len(StartPoints) = 0
                      THEN AfterLoop(g, << >>)
                      ELSE Iteration(g, 1, stores)
               /\ loading' = loading
          ELSE /\ init' = [init EXCEPT ![g].pc = "failed"]
               /\ loading' = FALSE
               /\ UNCHANGED << call, persons, markers, peopleRef, frames,
                               animationRef >>
    /\ UNCHANGED << clock, gen, mounted, reload, routeCacheRef, lastRequestRef,
                    ticks, requests, lastRet, obtained, client, anim, fn >>

\* The stores file as the repository ships it.
InitStores(g) == InitStoresFrom(g, {GroceryStores})

\* The request of initialize's getRoute call has settled.
InitRouteSettled(g) ==
    /\ call[InitProc(g)].pc = "fetch"
    /\ \E outcome \in Outcomes :
          LET c   == call[InitProc(g)]
              out == Settle(routeCacheRef, c.start, c.end, outcome)
          IN  /\ routeCacheRef' = out.cache
              /\ Candidate(g, init[g].i, init[g].home, init[g].targetStore,
                           out.route, init[g].draw, markers, init[g].stores)
    /\ call' = [call EXCEPT ![InitProc(g)] = NoCall]
    /\ UNCHANGED << clock, gen, mounted, reload, peopleRef, lastRequestRef,
                    animationRef, frames, loading, ticks, requests, lastRet,
                    obtained, client, anim, fn >>

\* An InitPaced that leaves the loop after the first candidate.
InitPaced_breakAlways(g) ==
    /\ init[g].pc = "pace"
    /\ clock >= init[g].wake
    /\ AfterLoop(g, init[g].people)
    /\ UNCHANGED << clock, gen, mounted, reload, routeCacheRef, lastRequestRef,
                    loading, ticks, requests, lastRet, obtained, client, anim, fn >>

\* Lines 575-589: the 300 ms after a candidate have passed.
InitPaced(g) ==
    /\ init[g].pc = "pace"
    /\ clock >= init[g].wake
    /\ IF mounted[g] /\ init[g].i < Len(StartPoints)
       THEN Iteration(g, init[g].i + 1, init[g].stores)
       ELSE AfterLoop(g, init[g].people)
    /\ UNCHANGED << clock, gen, mounted, reload, routeCacheRef, lastRequestRef,
                    loading, ticks, requests, lastRet, obtained, client, anim, fn >>

\* Lines 587-589: the 500 ms after the loop have passed.
InitFinish(g) ==
    /\ init[g].pc = "finish"
    /\ clock >= init[g].wake
    /\ init' = [init EXCEPT ![g].pc = "done"]
    /\ loading' = IF mounted[g] THEN FALSE ELSE loading
    /\ UNCHANGED << clock, gen, mounted, reload, call, persons, markers,
                    peopleRef, routeCacheRef, lastRequestRef, animationRef,
                    frames, ticks, requests, lastRet, obtained, client, anim, fn >>

(***************************************************************************)
(* reloadAndReroute (lines 605-688).                                       *)
(***************************************************************************)
\* The search of lines 652-673 with <= for <: a store as near as the
\* current target replaces it.
RECURSIVE RerouteNearest_notStrict(_, _, _, _, _)
RerouteNearest_notStrict(home, stores, k, nearestStore, changed) ==
    IF k > Len(stores) THEN [store |-> nearestStore, changed |-> changed]
    ELSE LET storeCoords == stores[k].coordinates
         IN  IF distance(home, storeCoords) <= distance(home, nearestStore)
             THEN RerouteNearest_notStrict(home, stores, k + 1, storeCoords, TRUE)
             ELSE RerouteNearest_notStrict(home, stores, k + 1, nearestStore, changed)

\* Lines 652-673: the store the loop settles on for a person, and whether
\* it is another array than person.targetStore (nearestStore !==
\* person.targetStore: true exactly when some store was strictly nearer).
RECURSIVE RerouteNearest(_, _, _, _, _)
RerouteNearest(home, stores, k, nearestStore, changed) ==
    IF k > Len(stores) THEN [store |-> nearestStore, changed |-> changed]
    ELSE LET storeCoords == stores[k].coordinates
         IN  IF distance(home, storeCoords) < distance(home, nearestStore)
             THEN RerouteNearest(home, stores, k + 1, storeCoords, TRUE)
             ELSE RerouteNearest(home, stores, k + 1, nearestStore, changed)

\* Lines 676-678 without the assignment to targetStore.
Retarget_keepTarget(person, nearestStore) ==
    [person EXCEPT !.progress = 0, !.isReturning = FALSE]

\* Lines 676-678 without the two resets.
Retarget_keepProgress(person, nearestStore) ==
    [person EXCEPT !.targetStore = nearestStore]

\* Lines 676-678.
Retarget(person, nearestStore) ==
    [person EXCEPT !.targetStore = nearestStore,
                   !.progress = 0,
                   !.isReturning = FALSE]

\* Lines 680-682 without the test of the length.
TakeRoute_always(person, newRoute) == [person EXCEPT !.route = newRoute]

\* Lines 680-682.
TakeRoute(person, newRoute) ==
    IF Len(newRoute) > 1 THEN [person EXCEPT !.route = newRoute] ELSE person

\* The for loop of lines 651-684 from arr[i] on, run until a getRoute call
\* has to wait (waiting, at arr[i]) or the array is through.  ps are the
\* persons.
RECURSIVE RerouteLoop(_, _, _, _, _)
RerouteLoop(ps, arr, i, stores, cache) ==
    IF i > Len(arr)
    THEN [persons |-> ps, i |-> i, waiting |-> FALSE]
    ELSE LET person == ps[arr[i]]
             near   == RerouteNearest(person.home, stores, 1,
                                      person.targetStore, FALSE)
             found  == Lookup(cache, person.home, near.store)
             ps1    == [ps EXCEPT ![arr[i]] = Retarget(person, near.store)]
         IN  IF ~near.changed
             THEN RerouteLoop(ps, arr, i + 1, stores, cache)
             ELSE IF found.hit
             THEN RerouteLoop(
                      [ps1 EXCEPT ![arr[i]] = TakeRoute(ps1[arr[i]], found.route)],
                      arr, i + 1, stores, cache)
             ELSE [persons |-> ps1, i |-> i, waiting |-> TRUE]

\* Where reloadAndReroute k stands after a run of its loop (a call that
\* is through keeps the stores it ran with, as history).
Rerouted(k, arr, stores, run) ==
    /\ persons' = run.persons
    /\ IF run.waiting
       THEN /\ reload' = [reload EXCEPT ![k] =
                   [pc |-> "route", stores |-> stores, arr |-> arr, i |-> run.i]]
            /\ call' = [call EXCEPT ![ReloadProc(k)] =
                   Sleeping(run.persons[arr[run.i]].home,
                            run.persons[arr[run.i]].targetStore)]
       ELSE /\ reload' = [reload EXCEPT ![k] =
                   [NoReload EXCEPT !.pc = "done", !.stores = stores]]
            /\ call' = [call EXCEPT ![ReloadProc(k)] = NoCall]

\* window.reloadAndReroute() is called (it is there while the component is
\* mounted) and fetches /api/get-stores.  A call that finds
\* peopleRef.current empty when it comes to its loop changes nothing; the
\* model starts the calls once there are people.
ReloadStart(k) ==
    /\ reload[k].pc = "idle"
    /\ \A j \in ReloadIds : j < k => reload[j].pc # "idle"
    /\ gen >= 1 /\ mounted[gen]
    /\ Len(peopleRef) > 0
    /\ reload' = [reload EXCEPT ![k].pc = "load"]
    /\ UNCHANGED << clock, gen, mounted, init, call, persons, markers,
                    peopleRef, routeCacheRef, lastRequestRef, animationRef,
                    frames, loading, ticks, requests, lastRet, obtained,
                    client, anim, fn >>

\* Lines 608-684: /api/get-stores and then the food access areas have
\* arrived (the areas are redrawn on the map, which is no state of the
\* simulation), and the loop over peopleRef.current begins; or one of the
\* two requests has thrown.
ReloadLoaded(k) ==
    /\ reload[k].pc = "load"
    /\ \/ /\ reload' = [reload EXCEPT ![k] = [NoReload EXCEPT !.pc = "done"]]
          /\ UNCHANGED << call, persons >>
       \/ \E stores \in StoreSets :
              Rerouted(k, peopleRef, stores,
                       RerouteLoop(persons, peopleRef, 1, stores, routeCacheRef))
    /\ UNCHANGED << clock, gen, mounted, init, markers, peopleRef,
                    routeCacheRef, lastRequestRef, animationRef, frames,
                    loading, ticks, requests, lastRet, obtained, client, anim,
                    fn >>

\* Lines 679-684: the request of reloadAndReroute's getRoute call has
\* settled; the loop goes on.
ReloadRouteSettled(k) ==
    /\ call[ReloadProc(k)].pc = "fetch"
    /\ \E outcome \in Outcomes :
          LET c   == call[ReloadProc(k)]
              r   == reload[k]
              out == Settle(routeCacheRef, c.start, c.end, outcome)
              ps  == [persons EXCEPT ![r.arr[r.i]] = TakeRoute(@, out.route)]
          IN  /\ routeCacheRef' = out.cache
              /\ Rerouted(k, r.arr, r.stores,
                          RerouteLoop(ps, r.arr, r.i + 1, r.stores, out.cache))
    /\ UNCHANGED << clock, gen, mounted, init, markers, peopleRef,
                    lastRequestRef, animationRef, frames, loading, ticks,
                    requests, lastRet, obtained, client, anim, fn >>

\* An animation frame of the component.
Frame ==
    /\ ticks < MaxTicks
    /\ \E f \in frames, roundsBelow \in [DOMAIN persons -> BOOLEAN] :
          Animate(f, roundsBelow)
    /\ UNCHANGED << clock, gen, mounted, init, reload, call, peopleRef,
                    routeCacheRef, lastRequestRef, loading, requests, lastRet,
                    obtained, client, anim, fn >>

Init == ComponentInit /\ client = NoClient /\ anim = NoAnim /\ fn = NoFn

Next ==
    \/ Mount
    \/ Unmount
    \/ \E g \in Gens : InitOrigins(g)
    \/ \E g \in Gens : InitStores(g)
    \/ \E g \in Gens : GrSend(InitProc(g))
    \/ \E g \in Gens : InitRouteSettled(g)
    \/ \E g \in Gens : InitPaced(g)
    \/ \E g \in Gens : InitFinish(g)
    \/ \E k \in ReloadIds : ReloadStart(k)
    \/ \E k \in ReloadIds : ReloadLoaded(k)
    \/ \E k \in ReloadIds : GrSend(ReloadProc(k))
    \/ \E k \in ReloadIds : ReloadRouteSettled(k)
    \/ Frame
    \/ Advance

Spec == Init /\ [][Next]_vars

(***************************************************************************)
(* Properties of the component.                                            *)
(***************************************************************************)
\* The cleanup of the effect has run and the component is not mounted.
TornDown == gen >= 1 /\ ~mounted[gen]

\* No initialize and no reloadAndReroute is in the middle of its work.
Quiet ==
    /\ \A g \in Gens : init[g].pc \in {"idle", "done", "failed"}
    /\ \A k \in ReloadIds : reload[k].pc \in {"idle", "done"}
    /\ \A p \in Procs : call[p].pc = "none"

\* C2: whatever the interleaving of the getRoute calls of initialize and of
\* the reloadAndReroute calls, two directions requests are never sent less
\* than MinSpacing (300 ms) apart.
C2_MinimumSpacing == requests.count >= 2 => requests.minGap >= MinSpacing

\* C3: once the cleanup has run, no animation frame runs and no new frame
\* is requested, also when the cleanup runs while initialize is waiting.
C3_NoTickAfterTeardown ==
    [][TornDown => (ticks' = ticks /\ frames' \subseteq frames)]_vars

\* C4: after the cleanup, once initialize and every reloadAndReroute have
\* come to their end, no marker the simulation made is on the map.
C4_NoMarkerAfterTeardown ==
    (TornDown /\ Quiet) => \A m \in DOMAIN markers : ~markers[m].onMap

\* C5: a directions request that settles after the cleanup changes no
\* person and adds no person, whether initialize or reloadAndReroute had
\* sent it.
C5_LateRouteChangesNothing ==
    [][(TornDown /\ \E p \in Procs : call[p].pc = "fetch" /\ call'[p].pc # "fetch")
          => persons' = persons]_vars

\* The stores strictly nearer to home than target.
Closer(home, target, stores) ==
    {k \in DOMAIN stores :
        distance(home, stores[k].coordinates) < distance(home, target)}

\* C10: when the loop of reloadAndReroute comes to a person for whom the
\* stores it runs with hold one strictly nearer to home than targetStore,
\* the person's targetStore becomes the nearest of the stores, progress
\* becomes 0 and isReturning becomes false.
C10_RetargetsToClosest ==
    [][\A k \in ReloadIds :
          (reload[k].pc \in {"load", "route"} /\ reload'[k].pc \in {"route", "done"})
          => LET arr    == IF reload[k].pc = "load" THEN peopleRef
                                                    ELSE reload[k].arr
                 from   == IF reload[k].pc = "load" THEN 1 ELSE reload[k].i + 1
                 to     == IF reload'[k].pc = "route" THEN reload'[k].i
                                                      ELSE Len(arr)
                 stores == reload'[k].stores
             IN  \A j \in from..to :
                    LET before == persons[arr[j]]
                        after  == persons'[arr[j]]
                    IN  Closer(before.home, before.targetStore, stores) # {}
                        => /\ \E n \in DOMAIN stores :
                                   after.targetStore = stores[n].coordinates
                           /\ \A n \in DOMAIN stores :
                                   distance(before.home, after.targetStore)
                                       <= distance(before.home, stores[n].coordinates)
                           /\ after.progress = 0
                           /\ after.isReturning = FALSE]_vars

\* A reloadAndReroute has given a person that was on its way back, almost
\* at 1, a nearer store, and waits for the new route.
C10_Witness ==
    \E k \in ReloadIds, id \in DOMAIN persons :
        /\ reload[k].pc = "route"
        /\ reload[k].arr[reload[k].i] = id
        /\ persons[id].targetStore \notin {GroceryStores[n].coordinates :
                                               n \in DOMAIN GroceryStores}
        /\ persons[id].progress = 0
        /\ ~persons[id].isReturning
        /\ persons[id].route[Len(persons[id].route)] # persons[id].targetStore

\* The persons the loop of reloadAndReroute k passes in a step: arr[from]
\* to arr[to].  A call that waits for a route waits at arr[to].
LoopStep(k) ==
    reload[k].pc \in {"load", "route"} /\ reload'[k].pc \in {"route", "done"}
LoopArr(k) == IF reload[k].pc = "load" THEN peopleRef ELSE reload[k].arr
LoopFrom(k) == IF reload[k].pc = "load" THEN 1 ELSE reload[k].i + 1
LoopTo(k) == IF reload'[k].pc = "route" THEN reload'[k].i ELSE Len(LoopArr(k))

\* C11: a person for whom the stores of a reloadAndReroute hold none
\* strictly nearer to home than targetStore is left as it is by the loop
\* (targetStore, route, progress, isReturning), and the call does not ask
\* for a route for it.
C11_NoCloserUntouched ==
    [][\A k \in ReloadIds :
          LoopStep(k) =>
              \A j \in LoopFrom(k)..LoopTo(k) :
                  LET id == LoopArr(k)[j]
                  IN  Closer(persons[id].home, persons[id].targetStore,
                             reload'[k].stores) = {}
                      => /\ persons'[id] = persons[id]
                         /\ ~(reload'[k].pc = "route" /\ reload'[k].i = j)]_vars

\* A reloadAndReroute that ran with the stores [0,1], [0,4], [6,4] is
\* through, and the second person, on its way back to a home near [6,0]
\* from [6,4], is as initialize made it.
C11_Witness ==
    /\ ticks = 0
    /\ \E k \in ReloadIds :
          /\ reload[k].pc = "done"
          /\ Len(reload[k].stores) = 3
    /\ 2 \in DOMAIN persons
    /\ persons[2].targetStore = <<6, 4>>
    /\ persons[2].progress = 9975
    /\ persons[2].isReturning
    /\ persons[2].route = ProviderRoute(persons[2].home, <<6, 4>>)

\* The locations of a list of stores.
Locations(stores) == {stores[n].coordinates : n \in DOMAIN stores}

\* C12 as stated: when a reloadAndReroute with a non-empty list of stores
\* ends, every person's targetStore is the location of one of these
\* stores, at the least distance from the person's home.
C12_TargetAmongNewStores ==
    [][\A k \in ReloadIds :
          (LoopStep(k) /\ reload'[k].pc = "done" /\ reload'[k].stores # << >>)
          => \A j \in DOMAIN LoopArr(k) :
                LET after == persons'[LoopArr(k)[j]]
                IN  /\ after.targetStore \in Locations(reload'[k].stores)
                    /\ \A n \in DOMAIN reload'[k].stores :
                          distance(after.home, after.targetStore)
                              <= distance(after.home,
                                          reload'[k].stores[n].coordinates)]_vars

\* C12 amended: when a reloadAndReroute with a non-empty list of stores
\* ends, every person's targetStore is at least as near to the person's
\* home as each of these stores; it need not be one of them (a target
\* that no store of the list beats is kept).
C12_TargetAtLeastAsNear ==
    [][\A k \in ReloadIds :
          (LoopStep(k) /\ reload'[k].pc = "done" /\ reload'[k].stores # << >>)
          => \A j \in DOMAIN LoopArr(k) :
                LET after == persons'[LoopArr(k)[j]]
                IN  \A n \in DOMAIN reload'[k].stores :
                        distance(after.home, after.targetStore)
                            <= distance(after.home,
                                        reload'[k].stores[n].coordinates)]_vars

\* A reloadAndReroute is through with stores of which one was nearer to
\* the first person than its target (the person now has it) and none is
\* the target of the second person (which kept its target).
C12_Witness ==
    \E k \in ReloadIds :
        /\ reload[k].pc = "done"
        /\ Len(reload[k].stores) = 3
        /\ DOMAIN persons = {1, 2}
        /\ persons[1].targetStore = <<0, 1>>
        /\ \E j \in ReloadIds :
              /\ reload[j].pc = "done"
              /\ Len(reload[j].stores) = 2
              /\ persons[1].targetStore \notin Locations(reload[j].stores)

\* C13: when the route asked for a person in reloadAndReroute has settled
\* without a route of at least 2 points, the person keeps the route it
\* had; after any settling it has a route of at least 2 points; and no
\* step of a reloadAndReroute takes a person out of peopleRef.current.
C13_FailedRerouteKeepsRoute ==
    [][\A k \in ReloadIds :
          /\ LoopStep(k) => /\ peopleRef' = peopleRef
                            /\ DOMAIN persons' = DOMAIN persons
          /\ (call[ReloadProc(k)].pc = "fetch" /\ call'[ReloadProc(k)].pc # "fetch")
             => LET c  == call[ReloadProc(k)]
                    id == reload[k].arr[reload[k].i]
                IN  /\ ~CacheHas(routeCacheRef', cacheKey(c.start, c.end))
                       => persons'[id].route = persons[id].route
                    /\ persons'[id].route \in
                           {persons[id].route, ProviderRoute(c.start, c.end)}
                    /\ Len(persons'[id].route) >= 2]_vars

\* The request for the first person's route to its new store [0,1] has
\* failed: the reloadAndReroute is through, nothing is cached for the
\* pair, and the person still has its route to [0,4] and is in
\* peopleRef.current.
C13_Witness ==
    \E k \in ReloadIds :
        /\ reload[k].pc = "done"
        /\ requests.count >= 3
        /\ 1 \in Range(peopleRef)
        /\ persons[1].targetStore = <<0, 1>>
        /\ ~CacheHas(routeCacheRef, cacheKey(persons[1].home, <<0, 1>>))
        /\ persons[1].route = ProviderRoute(persons[1].home, <<0, 4>>)

\* C16: every person's progress is at least 0 and less than 1, from its
\* creation on, after every animation frame and after every
\* reloadAndReroute.
C16_ProgressInRange ==
    \A id \in DOMAIN persons :
        persons[id].progress >= 0 /\ persons[id].progress < ONE

\* A frame has taken a person from 0.9975 to the wrap: it is at 0 and has
\* turned round.
C16_Witness ==
    /\ ticks = 1
    /\ \E id \in DOMAIN persons :
          /\ id \in Range(peopleRef)
          /\ persons[id].progress = 0
          /\ ~persons[id].isReturning
          /\ persons[id].route[1] = persons[id].home
          /\ \A k \in ReloadIds : reload[k].pc = "idle"

\* Every directions request sent so far has been answered with a route of
\* at least 2 points for a pair not cached before: each such answer adds
\* two keys to the cache (line 421-422) and nothing else adds any.
AllSucceeded == Cardinality(DOMAIN routeCacheRef) = 2 * requests.count

\* C31: when no getRoute call is open and every request sent so far has
\* brought a route, the route of every person of peopleRef.current is the
\* route obtained for its home and its targetStore, also after two
\* reloadAndReroute calls that overlapped.
C31_RouteMatchesTarget ==
    (AllSucceeded /\ \A p \in Procs : call[p].pc = "none") =>
        \A k \in DOMAIN peopleRef :
            LET person == persons[peopleRef[k]]
                key    == cacheKey(person.home, person.targetStore)
            IN  /\ CacheHas(routeCacheRef, key)
                /\ person.route = routeCacheRef[key]

(***************************************************************************)
(* findNearestStore on its own: any query point, any store list.           *)
(***************************************************************************)
MaxStoreList == 3
QueryPoints == {<<x, y>> : x \in -1..1, y \in -1..1}
StorePoints == {<<0, 0>>, <<0, 2>>, <<2, 0>>, <<-2, 0>>, <<1, 1>>}
StoreLists == UNION {[1..n -> {Store(pt) : pt \in StorePoints}] : n \in 0..MaxStoreList}

FnCall ==
    /\ ~fn.called
    /\ \E point \in QueryPoints, stores \in StoreLists :
          fn' = [called |-> TRUE, point |-> point, stores |-> stores,
                 result |-> findNearestStore(point, stores)]
    /\ UNCHANGED << componentVars, client, anim >>

FnInit == ComponentInit /\ client = NoClient /\ anim = NoAnim /\ fn = NoFn
FnNext == FnCall
SpecFn == FnInit /\ [][FnNext]_vars

\* C9: for every point and every non-empty store list, findNearestStore
\* returns the location of a store of the list, and no store of the list is
\* nearer to the point than that one.
C9_NearestIsMinimal ==
    (fn.called /\ Len(fn.stores) > 0) =>
        /\ \E k \in 1..Len(fn.stores) : fn.stores[k].coordinates = fn.result
        /\ \A k \in 1..Len(fn.stores) :
              distance(fn.point, fn.result)
                  <= distance(fn.point, fn.stores[k].coordinates)

\* A call with three stores of which the last is strictly the nearest and
\* is what came back.
C9_Witness ==
    /\ fn.called
    /\ Len(fn.stores) = 3
    /\ fn.result = fn.stores[3].coordinates
    /\ \A k \in 1..2 : distance(fn.point, fn.stores[k].coordinates)
                           > distance(fn.point, fn.result)
    /\ distance(fn.point, fn.stores[1].coordinates)
           < distance(fn.point, fn.stores[2].coordinates)

\* C27: when several stores of the list are at the least distance from the
\* point, findNearestStore returns the location of the first of them in
\* the list.
C27_FirstOnTie ==
    (fn.called /\ Len(fn.stores) > 0) =>
        LET least == CHOOSE d \in {distance(fn.point, fn.stores[k].coordinates) :
                                      k \in 1..Len(fn.stores)} :
                         \A k \in 1..Len(fn.stores) :
                             d <= distance(fn.point, fn.stores[k].coordinates)
            first == CHOOSE k \in 1..Len(fn.stores) :
                         /\ distance(fn.point, fn.stores[k].coordinates) = least
                         /\ \A j \in 1..(k - 1) :
                                distance(fn.point, fn.stores[j].coordinates) > least
        IN  fn.result = fn.stores[first].coordinates

\* A call with three stores: the first is farther than the other two,
\* which are at the same distance in different places; the second came
\* back.
C27_Witness ==
    /\ fn.called
    /\ Len(fn.stores) = 3
    /\ distance(fn.point, fn.stores[2].coordinates)
           = distance(fn.point, fn.stores[3].coordinates)
    /\ distance(fn.point, fn.stores[1].coordinates)
           > distance(fn.point, fn.stores[2].coordinates)
    /\ fn.stores[2].coordinates # fn.stores[3].coordinates
    /\ fn.result = fn.stores[2].coordinates

\* C28: findNearestStore called with an empty store list returns the point
\* it was called with.
C28_EmptyGivesPoint ==
    (fn.called /\ Len(fn.stores) = 0) => fn.result = fn.point

\* A call with no stores and a point other than [0, 0] has returned the
\* point.
C28_Witness ==
    /\ fn.called
    /\ fn.stores = << >>
    /\ fn.point # <<0, 0>>
    /\ fn.result = fn.point

(***************************************************************************)
(* The tick on its own: one person as initialize or a reroute may have     *)
(* left it (any progress, either direction; routes of 0 to 3 points), and  *)
(* the frames of one full crossing, 1 / FIXED_SPEED of them.               *)
(***************************************************************************)
TicksPerCrossing == ONE \div FIXED_SPEED
AnimHome == <<0, 0>>
AnimStore == <<2, 4>>
AnimRoutes == { << >>, <<AnimHome>>, <<AnimHome, AnimStore>>,
                ProviderRoute(AnimHome, AnimStore) }
AnimProgress == {0, 10, 25, 30, 5000, 5010, 9975, 9990}

AnimPerson(progress, isReturning, route) ==
    [id |-> <<"person", "T1">>, marker |-> 1, home |-> AnimHome,
     targetStore |-> AnimStore, progress |-> progress,
     isReturning |-> isReturning, route |-> route, tractId |-> "T1"]

\* The component with initialize through and one person in
\* peopleRef.current, its first frame requested.
AnimMounted ==
    /\ markers = <<NewMarker(AnimHome)>>
    /\ peopleRef = <<1>>
    /\ frames = {1}
    /\ animationRef = 1
    /\ clock = StartTime
    /\ gen = 1
    /\ mounted = [g \in Gens |-> g = 1]
    /\ init = [g \in Gens |-> IF g = 1 THEN [NoInit EXCEPT !.pc = "done"] ELSE NoInit]
    /\ reload = [k \in ReloadIds |-> NoReload]
    /\ call = [p \in Procs |-> NoCall]
    /\ routeCacheRef = << >>
    /\ lastRequestRef = 0
    /\ loading = FALSE
    /\ ticks = 0
    /\ requests = NoRequests
    /\ lastRet = NoRet
    /\ obtained = {}
    /\ client = NoClient
    /\ fn = NoFn

AnimInit ==
    /\ \E progress \in AnimProgress, isReturning \in BOOLEAN, route \in AnimRoutes :
          /\ persons = <<AnimPerson(progress, isReturning, route)>>
          /\ anim = [start |-> <<AnimPerson(progress, isReturning, route)>>,
                     flips |-> 0]
    /\ AnimMounted

AnimTick ==
    /\ ticks < TicksPerCrossing
    /\ \E f \in frames, roundsBelow \in [DOMAIN persons -> BOOLEAN] :
          Animate(f, roundsBelow)
    /\ anim' = [anim EXCEPT !.flips =
                   @ + Cardinality({id \in DOMAIN persons :
                           persons'[id].isReturning # persons[id].isReturning})]
    /\ UNCHANGED << clock, gen, mounted, init, reload, call, peopleRef,
                    routeCacheRef, lastRequestRef, loading, requests, lastRet,
                    obtained, client, fn >>

AnimNext == AnimTick
SpecAnim == AnimInit /\ [][AnimNext]_vars

\* C7 as stated: after exactly 1 / FIXED_SPEED ticks of a person with a
\* valid route, progress is the starting progress again and isReturning has
\* flipped exactly once.
C7_ProgressReturns ==
    (ticks = TicksPerCrossing /\ Len(persons[1].route) >= 2) =>
        /\ persons[1].progress = anim.start[1].progress
        /\ anim.flips = 1

\* C7 amended: after exactly 1 / FIXED_SPEED ticks of a person with a valid
\* route, isReturning has flipped at most once; when the starting progress
\* is at least one increment it has flipped exactly once, and progress ends
\* at most at the starting progress and less than two increments below it
\* (the wrap sets progress to 0 and drops the overshoot).
C7_ProgressWithinTwoSteps ==
    (ticks = TicksPerCrossing /\ Len(persons[1].route) >= 2) =>
        /\ anim.flips <= 1
        /\ anim.start[1].progress >= FIXED_SPEED =>
              /\ anim.flips = 1
              /\ persons[1].progress <= anim.start[1].progress
              /\ persons[1].progress > anim.start[1].progress - 2 * FIXED_SPEED

\* A full crossing from a progress that is no multiple of the increment:
\* one flip, and progress ends below where it started.
C7_Witness ==
    /\ ticks = TicksPerCrossing
    /\ Len(persons[1].route) >= 2
    /\ anim.start[1].progress = 5010
    /\ persons[1].progress = 5000
    /\ anim.flips = 1

\* C8: a tick leaves a person whose route has fewer than 2 points as it is
\* (progress, isReturning and every other field) and does not write a
\* position to its marker.
C8_ShortRouteSkipped ==
    [][ticks' = ticks + 1 =>
          \A id \in Range(peopleRef) :
              Len(persons[id].route) < 2 =>
                  /\ persons'[id] = persons[id]
                  /\ markers'[persons[id].marker] = markers[persons[id].marker]]_vars

\* Ticks have run over a person whose route has one point, and it is where
\* it started.
C8_Witness ==
    /\ ticks >= 2
    /\ Len(persons[1].route) = 1
    /\ persons[1] = anim.start[1]
    /\ markers[1] = NewMarker(AnimHome)

\* C19: in a tick, a person with a valid route turns round exactly when
\* progress + FIXED_SPEED (the double the addition gives) is at least 1, and
\* then progress becomes 0; in every other tick the direction stays and
\* progress becomes that sum, which is progress + FIXED_SPEED exactly unless
\* the addition rounds.
C19_FlipsExactlyAtWrap ==
    [][ticks' = ticks + 1 =>
          \A id \in Range(peopleRef) :
              Len(persons[id].route) >= 2 =>
                  \E roundsBelow \in BOOLEAN :
                      LET sum == AddSpeed(persons[id].progress, roundsBelow)
                      IN  /\ persons[id].progress + FIXED_SPEED # ONE
                                 => sum = persons[id].progress + FIXED_SPEED
                          /\ IF sum >= ONE
                             THEN persons'[id] =
                                      [persons[id] EXCEPT
                                          !.progress = 0,
                                          !.isReturning = ~persons[id].isReturning]
                             ELSE persons'[id] =
                                      [persons[id] EXCEPT !.progress = sum]]_vars

\* A person has turned round once and has since made one step from 0.
C19_Witness ==
    /\ anim.flips = 1
    /\ Len(persons[1].route) >= 2
    /\ persons[1].progress = FIXED_SPEED
    /\ persons[1].isReturning # anim.start[1].isReturning

\* C34: whatever number of ticks has run, every person has the home, the
\* targetStore and the stored route it started with, also while it walks
\* the route backwards.
C34_TickKeepsRoute ==
    \A id \in DOMAIN persons :
        /\ persons[id].home = anim.start[id].home
        /\ persons[id].targetStore = anim.start[id].targetStore
        /\ persons[id].route = anim.start[id].route

\* A person that started on its way out on the 3-point route has turned
\* round and has walked ticks on the reversed route, which differs from
\* the stored one.
C34_Witness ==
    /\ anim.flips = 1
    /\ ~anim.start[1].isReturning
    /\ persons[1].isReturning
    /\ persons[1].progress >= 2 * FIXED_SPEED
    /\ persons[1].route = ProviderRoute(AnimHome, AnimStore)
    /\ Reverse(persons[1].route) # persons[1].route

\* The line a person walks along: its route, reversed on the way back.
Walked(person) ==
    IF person.isReturning THEN Reverse(person.route) ELSE person.route

\* C22 as stated: a tick of a person at progress 0 on a 2-point route
\* leaves progress at FIXED_SPEED and writes to the marker the point at
\* the fraction FIXED_SPEED of the line's length.
C22_PositionAtIncrement ==
    [][(ticks' = ticks + 1 /\ persons[1].progress = 0
            /\ Len(persons[1].route) = 2)
          => /\ persons'[1].progress = FIXED_SPEED
             /\ markers'[1].lngLat = along(Walked(persons[1]), FIXED_SPEED)]_vars

\* C22 amended: a tick of a person at progress 0 on a 2-point route leaves
\* progress at FIXED_SPEED and writes to the marker the point at fraction
\* 0 of the line, its first point (the home when the person is on its way
\* out); the point at the fraction FIXED_SPEED is written by the tick
\* after it.
C22_PositionBeforeIncrement ==
    [][(ticks' = ticks + 1 /\ Len(persons[1].route) = 2
            /\ persons[1].progress \in {0, FIXED_SPEED})
          => /\ persons'[1].progress = persons[1].progress + FIXED_SPEED
             /\ persons'[1].isReturning = persons[1].isReturning
             /\ markers'[1].lngLat =
                    along(Walked(persons[1]), persons[1].progress)
             /\ (persons[1].progress = 0 /\ ~persons[1].isReturning)
                    => /\ markers'[1].lngLat.at = 0
                       /\ markers'[1].lngLat.line[1] = persons[1].home]_vars

\* One tick has run over a person that started on its way out at progress
\* 0 on the 2-point route: progress is FIXED_SPEED and the marker is at the
\* start of the route.
C22_Witness ==
    /\ ticks = 1
    /\ anim.start[1].progress = 0
    /\ ~anim.start[1].isReturning
    /\ persons[1].route = <<AnimHome, AnimStore>>
    /\ persons[1].progress = FIXED_SPEED
    /\ markers[1].lngLat = along(<<AnimHome, AnimStore>>, 0)

(***************************************************************************)
(* getRoute on its own: a caller that awaits each call before it makes the *)
(* next, as initialize and reloadAndReroute each do, with any pair of      *)
(* points.                                                                 *)
(***************************************************************************)
MaxClientCalls == 3
ClientPoints == {<<0, 0>>, <<-1, 2>>, <<3, -1>>}

ClientCall ==
    /\ client.pc = "idle"
    /\ client.calls < MaxClientCalls
    /\ \E start \in ClientPoints, end \in ClientPoints :
          LET found == Lookup(routeCacheRef, start, end)
          IN  IF found.hit
              THEN /\ lastRet' = Returned(start, end, found.route, FALSE,
                                          Prior(start, end))
                   /\ client' = [client EXCEPT !.calls = @ + 1]
                   /\ call' = call
              ELSE /\ call' = [call EXCEPT ![ClientProc] = Sleeping(start, end)]
                   /\ client' = [pc |-> "await", calls |-> client.calls + 1,
                                 prior |-> Prior(start, end)]
                   /\ lastRet' = lastRet
    /\ UNCHANGED << clock, gen, mounted, init, reload, persons, markers,
                    peopleRef, routeCacheRef, lastRequestRef, animationRef,
                    frames, loading, ticks, requests, obtained, anim, fn >>

ClientSettle ==
    /\ call[ClientProc].pc = "fetch"
    /\ \E outcome \in Outcomes :
          LET c   == call[ClientProc]
              out == Settle(routeCacheRef, c.start, c.end, outcome)
          IN  /\ routeCacheRef' = out.cache
              /\ obtained' = Delivered(c.start, c.end, outcome)
              /\ lastRet' = Returned(c.start, c.end, out.route, TRUE, client.prior)
    /\ call' = [call EXCEPT ![ClientProc] = NoCall]
    /\ client' = [client EXCEPT !.pc = "idle", !.prior = {}]
    /\ UNCHANGED << clock, gen, mounted, init, reload, persons, markers,
                    peopleRef, lastRequestRef, animationRef, frames, loading,
                    ticks, requests, anim, fn >>

RouteInit == ComponentInit /\ client = NoClient /\ anim = NoAnim /\ fn = NoFn
RouteNext == ClientCall \/ GrSend(ClientProc) \/ ClientSettle \/ Advance
SpecRoute == RouteInit /\ [][RouteNext]_vars

\* C1: when the provider has delivered a route of at least 2 points for
\* (A,B) to an earlier getRoute(A,B), a later getRoute(A,B) returns that
\* route and a later getRoute(B,A) returns it reversed, neither sending a
\* request.
C1_CachedBothWays ==
    lastRet.settled =>
        \A t \in lastRet.prior :
            /\ ~lastRet.fetched
            /\ (t[1] = lastRet.start /\ t[2] = lastRet.end) => lastRet.route = t[3]
            /\ (t[1] = lastRet.end /\ t[2] = lastRet.start /\ t[1] # t[2])
                   => lastRet.route = Reverse(t[3])

\* A getRoute(B,A) after a getRoute(A,B) that fetched: it returned the
\* reversed route, which is not the route the provider gives for (B,A).
C1_Witness ==
    /\ lastRet.settled
    /\ ~lastRet.fetched
    /\ \E t \in lastRet.prior :
          /\ t[1] = lastRet.end /\ t[2] = lastRet.start
          /\ lastRet.route = Reverse(t[3])
          /\ lastRet.route # ProviderRoute(lastRet.start, lastRet.end)
          /\ lastRet.start[1] < 0

\* C6: a getRoute call never rejects, and whatever comes of its request
\* (a route, an HTTP error, a network failure, a body without routes) it
\* returns a route of at least 2 points.
C6_AtLeastTwoPoints == lastRet.settled => Len(lastRet.route) >= 2

(***************************************************************************)
(* getRoute with two callers that do not wait for each other, as two       *)
(* reloadAndReroute calls do not: each makes one call after another, and   *)
(* the calls of the two overlap in every way.                              *)
(***************************************************************************)
MaxRaceCalls == 3
RacePoints == {<<0, 0>>, <<-1, 2>>}

\* Caller p calls getRoute: it returns at once on a hit and sleeps on a miss.
RaceCall(p) ==
    /\ call[p].pc = "none"
    /\ client.calls < MaxRaceCalls
    /\ \E start \in RacePoints, end \in RacePoints :
          IF Lookup(routeCacheRef, start, end).hit
          THEN call' = call
          ELSE call' = [call EXCEPT ![p] = Sleeping(start, end)]
    /\ client' = [client EXCEPT !.calls = @ + 1]
    /\ UNCHANGED << clock, gen, mounted, init, reload, persons, markers,
                    peopleRef, routeCacheRef, lastRequestRef, animationRef,
                    frames, loading, ticks, requests, lastRet, obtained, anim,
                    fn >>

\* The request of caller p has settled.
RaceSettle(p) ==
    /\ call[p].pc = "fetch"
    /\ \E outcome \in Outcomes :
          routeCacheRef' = Settle(routeCacheRef, call[p].start, call[p].end,
                                  outcome).cache
    /\ call' = [call EXCEPT ![p] = NoCall]
    /\ UNCHANGED << clock, gen, mounted, init, reload, persons, markers,
                    peopleRef, lastRequestRef, animationRef, frames, loading,
                    ticks, requests, lastRet, obtained, client, anim, fn >>

RaceInit == ComponentInit /\ client = NoClient /\ anim = NoAnim /\ fn = NoFn
RaceNext ==
    \/ \E p \in RaceProcs : RaceCall(p)
    \/ \E p \in RaceProcs : GrSend(p)
    \/ \E p \in RaceProcs : RaceSettle(p)
    \/ Advance
SpecRace == RaceInit /\ [][RaceNext]_vars

\* C17: the route cache is symmetric in every state: when it has a route
\* under the key of (A,B), it has one under the key of (B,A), which is the
\* same points in reverse order.
C17_CacheSymmetric ==
    /\ DOMAIN routeCacheRef \subseteq
           {cacheKey(a, b) : a \in RacePoints, b \in RacePoints}
    /\ \A a \in RacePoints, b \in RacePoints :
          CacheHas(routeCacheRef, cacheKey(a, b))
          => /\ CacheHas(routeCacheRef, cacheKey(b, a))
             /\ routeCacheRef[cacheKey(b, a)]
                    = Reverse(routeCacheRef[cacheKey(a, b)])

\* A route for two different points is cached, under both keys, and the
\* two entries are not the same sequence.
C17_Witness ==
    \E a \in RacePoints, b \in RacePoints :
        /\ a # b
        /\ CacheHas(routeCacheRef, cacheKey(a, b))
        /\ CacheHas(routeCacheRef, cacheKey(b, a))
        /\ routeCacheRef[cacheKey(a, b)] # routeCacheRef[cacheKey(b, a)]
        /\ client.calls >= 2

\* C18: a key that is in the route cache stays in it with the value it
\* has, whatever getRoute calls for the pair or for its reverse overlap.
C18_CacheAppendOnly ==
    [][\A key \in DOMAIN routeCacheRef :
          /\ key \in DOMAIN routeCacheRef'
          /\ routeCacheRef'[key] = routeCacheRef[key]]_vars

(***************************************************************************)
(* The component when its effect runs again: mount, remount, and the two   *)
(* initialize runs with their animation frames (no reloadAndReroute).      *)
(***************************************************************************)
RemountNext ==
    \/ Mount
    \/ Remount
    \/ \E g \in Gens : InitOrigins(g)
    \/ \E g \in Gens : InitStores(g)
    \/ \E g \in Gens : GrSend(InitProc(g))
    \/ \E g \in Gens : InitRouteSettled(g)
    \/ \E g \in Gens : InitPaced(g)
    \/ \E g \in Gens : InitFinish(g)
    \/ Frame
    \/ Advance
SpecRemount == Init /\ [][RemountNext]_vars

\* C20: at most one animation frame is pending at any time, also after
\* the effect has been cleaned up and has run again.
C20_OneTickChain == Cardinality(frames) <= 1

(***************************************************************************)
(* The getRoute of the component at lines 28-324 (lines 74-137), which     *)
(* retries: one key per pair, 100 ms before the request, 1000 ms before    *)
(* the retry.  Two callers that do not wait for each other, as the         *)
(* getRoute calls made by that component's animate do not.                 *)
(***************************************************************************)
MaxRetryCalls == 3
\* The clock is not advanced past StartTime + MaxRetryElapsed.
MaxRetryElapsed == 3000
\* setTimeout(resolve, 100)
RetryDelay == 100
\* setTimeout(resolve, 1000)
Backoff == 1000

\* Lines 92-103 and 118-124: the answer holds a route of at least 2 points.
RetryUsable(outcome, start, end) ==
    ~Throws(outcome) /\ Len(Coordinates(outcome, start, end)) >= 2

\* What line 135 would give with [] for the direct route.
RetryFallback_empty(cache, start, end) ==
    IF CacheHas(cache, cacheKey(start, end)) THEN cache[cacheKey(start, end)]
                                             ELSE << >>

\* Line 135: routeCacheRef.current.get(cacheKey) || [start, end]
RetryFallback(cache, start, end) ==
    IF CacheHas(cache, cacheKey(start, end)) THEN cache[cacheKey(start, end)]
                                             ELSE <<start, end>>

NoRetryCall == [pc |-> "none", start |-> Origin, end |-> Origin, wake |-> 0,
                sent |-> 0, failed |-> 0, failedAt |-> 0, backoff |-> 0]
NoRetryRet == [settled |-> FALSE, start |-> Origin, end |-> Origin,
               route |-> << >>, sent |-> 0, failed |-> 0, backoff |-> 0,
               hadCache |-> FALSE, cached |-> << >>]

\* History: a call of the retrying getRoute returns route; c is the call,
\* cache the cache as the return statement finds it.
RetryReturned(c, route, failed, cache) ==
    [settled |-> TRUE, start |-> c.start, end |-> c.end, route |-> route,
     sent |-> c.sent, failed |-> failed, backoff |-> c.backoff,
     hadCache |-> CacheHas(cache, cacheKey(c.start, c.end)),
     cached |-> IF CacheHas(cache, cacheKey(c.start, c.end))
                THEN cache[cacheKey(c.start, c.end)] ELSE << >>]

\* Lines 78-86: a caller calls getRoute; a hit returns at once, a miss
\* sleeps 100 ms.
RetryCall(p) ==
    /\ call[p].pc = "none"
    /\ client.calls < MaxRetryCalls
    /\ client' = [client EXCEPT !.calls = @ + 1]
    /\ \E start \in RacePoints, end \in RacePoints :
          IF CacheHas(routeCacheRef, cacheKey(start, end))
          THEN /\ call' = call
               /\ lastRet' = RetryReturned(
                      [NoRetryCall EXCEPT !.start = start, !.end = end],
                      routeCacheRef[cacheKey(start, end)], 0, routeCacheRef)
          ELSE /\ call' = [call EXCEPT ![p] =
                      [NoRetryCall EXCEPT !.pc = "delay", !.start = start,
                                          !.end = end,
                                          !.wake = clock + RetryDelay]]
               /\ lastRet' = lastRet
    /\ UNCHANGED << clock, gen, mounted, init, reload, persons, markers,
                    peopleRef, routeCacheRef, lastRequestRef, animationRef,
                    frames, loading, ticks, requests, obtained, anim, fn >>

\* Lines 86-90 and 113-117: a timer of the call has fired and the request,
\* or the retry, is sent.
RetrySend(p) ==
    /\ call[p].pc \in {"delay", "backoff"}
    /\ clock >= call[p].wake
    /\ call' = [call EXCEPT ![p] =
           [call[p] EXCEPT !.pc = IF call[p].pc = "delay" THEN "fetch"
                                                          ELSE "refetch",
                           !.sent = @ + 1,
                           !.backoff = IF call[p].pc = "backoff"
                                       THEN clock - call[p].failedAt ELSE 0]]
    /\ requests' = [count  |-> requests.count + 1,
                     minGap |-> IF requests.count = 0 THEN requests.minGap
                                ELSE Min(requests.minGap, clock - requests.last),
                     last   |-> clock]
    /\ UNCHANGED << clock, gen, mounted, init, reload, persons, markers,
                    peopleRef, routeCacheRef, lastRequestRef, animationRef,
                    frames, loading, ticks, lastRet, obtained, client, anim, fn >>

\* Lines 92-113 and 134-135: the first request has settled.
RetrySettle(p) ==
    /\ call[p].pc = "fetch"
    /\ \E outcome \in Outcomes :
          LET c   == call[p]
              key == cacheKey(c.start, c.end)
          IN  IF RetryUsable(outcome, c.start, c.end)
              THEN /\ routeCacheRef' = CacheSet(routeCacheRef, key,
                                          Coordinates(outcome, c.start, c.end))
                   /\ lastRet' = RetryReturned(c,
                          Coordinates(outcome, c.start, c.end), 0, routeCacheRef)
                   /\ call' = [call EXCEPT ![p] = NoCall]
              ELSE IF ~CacheHas(routeCacheRef, key)
              THEN /\ call' = [call EXCEPT ![p] =
                          [c EXCEPT !.pc = "backoff", !.failed = 1,
                                    !.failedAt = clock,
                                    !.wake = clock + Backoff]]
                   /\ UNCHANGED << routeCacheRef, lastRet >>
              ELSE /\ lastRet' = RetryReturned(c,
                          RetryFallback(routeCacheRef, c.start, c.end), 1,
                          routeCacheRef)
                   /\ call' = [call EXCEPT ![p] = NoCall]
                   /\ UNCHANGED routeCacheRef
    /\ UNCHANGED << clock, gen, mounted, init, reload, persons, markers,
                    peopleRef, lastRequestRef, animationRef, frames, loading,
                    ticks, requests, obtained, client, anim, fn >>

\* Lines 118-135: the retry has settled.
RetryResettle(p) ==
    /\ call[p].pc = "refetch"
    /\ \E outcome \in Outcomes :
          LET c   == call[p]
              key == cacheKey(c.start, c.end)
          IN  IF RetryUsable(outcome, c.start, c.end)
              THEN /\ routeCacheRef' = CacheSet(routeCacheRef, key,
                                          Coordinates(outcome, c.start, c.end))
                   /\ lastRet' = RetryReturned(c,
                          Coordinates(outcome, c.start, c.end), 1, routeCacheRef)
              ELSE /\ lastRet' = RetryReturned(c,
                          RetryFallback(routeCacheRef, c.start, c.end), 2,
                          routeCacheRef)
                   /\ UNCHANGED routeCacheRef
    /\ call' = [call EXCEPT ![p] = NoCall]
    /\ UNCHANGED << clock, gen, mounted, init, reload, persons, markers,
                    peopleRef, lastRequestRef, animationRef, frames, loading,
                    ticks, requests, obtained, client, anim, fn >>

\* Time passes until a timer of a sleeping call is due.
RetryAdvance ==
    /\ \E p \in RaceProcs :
          /\ call[p].pc \in {"delay", "backoff"}
          /\ call[p].wake > clock
          /\ call[p].wake <= StartTime + MaxRetryElapsed
          /\ clock' = call[p].wake
    /\ UNCHANGED << gen, mounted, init, reload, call, persons, markers,
                    peopleRef, routeCacheRef, lastRequestRef, animationRef,
                    frames, loading, ticks, requests, lastRet, obtained,
                    client, anim, fn >>

RetryInit ==
    /\ ComponentInit /\ client = NoClient /\ anim = NoAnim /\ fn = NoFn
RetryNext ==
    \/ \E p \in RaceProcs : RetryCall(p)
    \/ \E p \in RaceProcs : RetrySend(p)
    \/ \E p \in RaceProcs : RetrySettle(p)
    \/ \E p \in RaceProcs : RetryResettle(p)
    \/ RetryAdvance
SpecRetry == RetryInit /\ [][RetryNext]_vars

LimitedOutcomes == Outcomes \cup {"rate_limited"}

\* Line 65: json.routes?.[0]?.geometry?.coordinates || [start, end]
LimitedCoordinates(outcome, start, end) ==
    CASE outcome = "ok"    -> ProviderRoute(start, end)
      [] outcome = "short" -> <<start>>
      [] OTHER             -> <<start, end>>

\* A LimitedSettle that treats a 429 as the getRoute of lines 384-432
\* treats every failed request.
LimitedSettle_empty(cache, start, end, outcome) ==
    IF outcome = "rate_limited" THEN [route |-> << >>, cache |-> cache]
    ELSE IF outcome \in {"network_error", "bad_json"}
    THEN [route |-> <<start, end>>, cache |-> cache]
    ELSE LET route == LimitedCoordinates(outcome, start, end)
         IN  [route |-> route,
              cache |-> CacheSet(CacheSet(cache, cacheKey(start, end), route),
                                 reverseKey(start, end), Reverse(route))]

\* Lines 59-73: what the call returns and what the cache becomes.  A 429
\* returns [start, end] and caches nothing; a rejected fetch or json() is
\* caught and gives [start, end]; every other answer is cached both ways.
LimitedSettle(cache, start, end, outcome) ==
    IF outcome = "rate_limited" THEN [route |-> <<start, end>>, cache |-> cache]
    ELSE IF outcome \in {"network_error", "bad_json"}
    THEN [route |-> <<start, end>>, cache |-> cache]
    ELSE LET route == LimitedCoordinates(outcome, start, end)
         IN  [route |-> route,
              cache |-> CacheSet(CacheSet(cache, cacheKey(start, end), route),
                                 reverseKey(start, end), Reverse(route))]

NoLimitedRet == [settled |-> FALSE, start |-> Origin, end |-> Origin,
                 route |-> << >>, fetched |-> FALSE, limited |-> FALSE,
                 streak |-> 0, after |-> FALSE, keyCached |-> FALSE]

\* History: a call has returned.  limited: its request was answered 429;
\* streak: the number of calls up to this one, all for this pair and all
\* answered 429; after: the call before this one was for this pair and was
\* answered 429.
LimitedReturned(start, end, route, fetched, limited, cache) ==
    LET same == lastRet.settled /\ lastRet.start = start /\ lastRet.end = end
    IN  [settled |-> TRUE, start |-> start, end |-> end, route |-> route,
         fetched |-> fetched, limited |-> limited,
         streak |-> IF ~limited THEN 0
                    ELSE IF same THEN lastRet.streak + 1 ELSE 1,
         after |-> same /\ lastRet.limited,
         keyCached |-> CacheHas(cache, cacheKey(start, end))]

\* Lines 35-51.
LimitedCall ==
    /\ client.pc = "idle"
    /\ client.calls < MaxClientCalls
    /\ \E start \in RacePoints, end \in RacePoints :
          LET found == Lookup(routeCacheRef, start, end)
          IN  IF found.hit
              THEN /\ lastRet' = LimitedReturned(start, end, found.route, FALSE,
                                                 FALSE, routeCacheRef)
                   /\ client' = [client EXCEPT !.calls = @ + 1]
                   /\ call' = call
              ELSE /\ call' = [call EXCEPT ![ClientProc] = Sleeping(start, end)]
                   /\ client' = [client EXCEPT !.pc = "await", !.calls = @ + 1]
                   /\ lastRet' = lastRet
    /\ UNCHANGED << clock, gen, mounted, init, reload, persons, markers,
                    peopleRef, routeCacheRef, lastRequestRef, animationRef,
                    frames, loading, ticks, requests, obtained, anim, fn >>

\* Lines 59-73: the request has settled.
LimitedSettled ==
    /\ call[ClientProc].pc = "fetch"
    /\ \E outcome \in LimitedOutcomes :
          LET c   == call[ClientProc]
              out == LimitedSettle(routeCacheRef, c.start, c.end, outcome)
          IN  /\ routeCacheRef' = out.cache
              /\ lastRet' = LimitedReturned(c.start, c.end, out.route, TRUE,
                                             outcome = "rate_limited", out.cache)
    /\ call' = [call EXCEPT ![ClientProc] = NoCall]
    /\ client' = [client EXCEPT !.pc = "idle"]
    /\ UNCHANGED << clock, gen, mounted, init, reload, persons, markers,
                    peopleRef, lastRequestRef, animationRef, frames, loading,
                    ticks, requests, obtained, anim, fn >>

LimitedInit == ComponentInit /\ client = NoClient /\ anim = NoAnim /\ fn = NoFn
LimitedNext == LimitedCall \/ GrSend(ClientProc) \/ LimitedSettled \/ Advance
SpecLimited == LimitedInit /\ [][LimitedNext]_vars

C33_CacheHoldsRoutes ==
    /\ [](\A key \in DOMAIN routeCacheRef : Len(routeCacheRef[key]) >= 2)
    /\ [][(call[ClientProc].pc = "fetch" /\ call'[ClientProc].pc = "none"
            /\ lastRet'.route # ProviderRoute(lastRet'.start, lastRet'.end))
               => routeCacheRef' = routeCacheRef]_vars


(***************************************************************************)
(* initialize on its own (lines 494-594): one run of the effect, with the  *)
(* stores file as shipped or empty, any outcome of the two loads and of    *)
(* every directions request, the cleanup at any moment, and the frames     *)
(* once the animation has been started.  No reloadAndReroute.              *)
(***************************************************************************)
\* /data/Grocery_Store_Locations.geojson: with stores, or a collection
\* with no features.
StoreFiles == { << >>, GroceryStores }

LoadInit == ComponentInit /\ client = NoClient /\ anim = NoAnim /\ fn = NoFn
LoadNext ==
    \/ Mount
    \/ Unmount
    \/ \E g \in Gens : InitOrigins(g)
    \/ \E g \in Gens : InitStoresFrom(g, StoreFiles)
    \/ \E g \in Gens : GrSend(InitProc(g))
    \/ \E g \in Gens : InitRouteSettled(g)
    \/ \E g \in Gens : InitPaced(g)
    \/ \E g \in Gens : InitFinish(g)
    \/ Frame
    \/ Advance
SpecInit == LoadInit /\ [][LoadNext]_vars

\* The step in which initialize leaves its loop (lines 577-580).
Completes(g) == init[g].pc = "pace" /\ init'[g].pc = "finish"

\* The home drawn for origin i in run g: where its marker was put (line
\* 547), which no frame has moved before initialize is through.
CandidateHome(g, i) == markers[ObjectId(g, i)].lngLat.line[1]

\* The directions request for origin i of run g brought a route of at
\* least 2 points: getRoute caches exactly these (line 420).
Routed(g, i, stores) ==
    /\ ObjectId(g, i) \in DOMAIN markers
    /\ CacheHas(routeCacheRef,
                cacheKey(CandidateHome(g, i),
                         findNearestStore(CandidateHome(g, i), stores)))

\* The markers that are attached to the map.
OnMap(ms) == {m \in DOMAIN ms : ms[m].onMap}

\* C21: when initialize leaves its loop without a cleanup having run, with
\* a stores file that holds stores and with a route of at least 2 points
\* for every origin, peopleRef.current becomes one person per origin, in
\* the origins' order, with the ids person-<tractId> (all different), each
\* with the location of a store as targetStore, no store being nearer to
\* its home.
C21_OnePersonPerOrigin ==
    [][\A g \in Gens :
          (/\ Completes(g) /\ mounted[g]
           /\ init[g].stores # << >>
           /\ \A i \in DOMAIN StartPoints : Routed(g, i, init[g].stores))
          => /\ Len(peopleRef') = Len(StartPoints)
             /\ \A i \in DOMAIN StartPoints :
                   LET person == persons'[peopleRef'[i]]
                   IN  /\ person.id = <<"person", StartPoints[i].tractId>>
                       /\ person.tractId = StartPoints[i].tractId
                       /\ person.home = CandidateHome(g, i)
                       /\ person.targetStore \in Locations(init[g].stores)
                       /\ \A n \in DOMAIN init[g].stores :
                             distance(person.home, person.targetStore)
                                 <= distance(person.home,
                                             init[g].stores[n].coordinates)
             /\ \A i, j \in DOMAIN StartPoints :
                   i # j => persons'[peopleRef'[i]].id # persons'[peopleRef'[j]].id]_vars

\* initialize is through, mounted, after two requests that both brought a
\* route: two persons, one for each origin, each for the store above it.
C21_Witness ==
    /\ init[1].pc = "finish" /\ mounted[1]
    /\ requests.count = 2
    /\ Len(peopleRef) = 2
    /\ persons[peopleRef[1]].id = <<"person", "T1">>
    /\ persons[peopleRef[2]].id = <<"person", "T2">>
    /\ persons[peopleRef[1]].targetStore = <<0, 4>>
    /\ persons[peopleRef[2]].targetStore = <<6, 4>>

\* The component's render (lines 698-781): the loading overlay while
\* loading is true, otherwise an empty fragment.
Rendered(isLoading) == IF isLoading THEN "overlay" ELSE "nothing"

\* C23: when the load of the origins or of the stores has failed,
\* initialize has made no person and no marker, has not started the
\* animation, and the component renders something else than it renders
\* after a load that succeeded (line 588 has then set loading to false).
C23_FailureIsVisible ==
    \A g \in Gens :
        init[g].pc = "failed" =>
            /\ \A i \in DOMAIN StartPoints :
                   /\ ObjectId(g, i) \notin DOMAIN persons
                   /\ ObjectId(g, i) \notin DOMAIN markers
            /\ peopleRef = << >>
            /\ frames = {} /\ ticks = 0
            /\ Rendered(loading) # Rendered(FALSE)

\* C24: a candidate whose request brings no route of at least 2 points is
\* not added to the people and is not made a person, and its marker is
\* taken off the map; and when initialize leaves its loop, the markers on
\* the map are exactly the markers of the persons of peopleRef.current.
C24_MarkersMatchPeople ==
    [][\A g \in Gens :
          /\ (/\ call[InitProc(g)].pc = "fetch"
              /\ call'[InitProc(g)].pc = "none"
              /\ ~CacheHas(routeCacheRef', cacheKey(call[InitProc(g)].start,
                                                    call[InitProc(g)].end)))
             => /\ init'[g].people = init[g].people
                /\ init[g].marker \notin DOMAIN persons'
                /\ markers[init[g].marker].onMap
                /\ ~markers'[init[g].marker].onMap
          /\ Completes(g)
             => OnMap(markers') = {persons'[id].marker : id \in Range(peopleRef')}]_vars

\* initialize is through with one person: the request for the first
\* origin brought nothing and its marker is off the map, the second
\* origin's marker is on it.
C24_Witness ==
    /\ init[1].pc = "finish"
    /\ requests.count = 2
    /\ peopleRef = <<2>>
    /\ DOMAIN markers = {1, 2}
    /\ ~markers[1].onMap
    /\ markers[2].onMap

\* C25: while a getRoute call of initialize is open (sleeping before its
\* request, or with the request in flight) initialize is waiting for it
\* and for nothing else, the call being the one for the origin it is at;
\* initialize starts on the next origin only in a step before which that
\* call has returned and InitPace (300 ms) has passed since; and it has
\* sent at most one request per origin it has started on.
C25_RequestsOneAtATime ==
    [][\A g \in Gens :
          /\ call'[InitProc(g)].pc # "none"
             => /\ init'[g].pc = "route"
                /\ call'[InitProc(g)].start = init'[g].home
                /\ call'[InitProc(g)].end = init'[g].targetStore
          /\ (init'[g].i > init[g].i /\ init[g].i >= 1)
             => /\ call[InitProc(g)].pc = "none"
                /\ init[g].pc = "pace"
                /\ clock >= init[g].wake
                /\ init'[g].i = init[g].i + 1
          /\ init'[g].pc \in {"route", "pace"} => requests'.count <= init'[g].i]_vars

\* The request for the second origin is in flight; the first origin's
\* request has been answered with a route, and its person is made.
C25_Witness ==
    /\ init[1].pc = "route" /\ init[1].i = 2
    /\ call[InitProc(1)].pc = "fetch"
    /\ requests.count = 2
    /\ init[1].people = <<1>>
    /\ clock - StartTime >= InitPace

\* Run g of the effect has left its loop after the last origin.
ProcessedAll(g) ==
    /\ init[g].pc \in {"finish", "done"}
    /\ ObjectId(g, Len(StartPoints)) \in DOMAIN markers

\* C26: an animation frame runs only when initialize has left its loop,
\* after its last origin or, earlier, because the cleanup had run.
C26_TickAfterAllOrigins ==
    [][ticks' = ticks + 1 =>
          \E g \in Gens :
              /\ init[g].pc \in {"finish", "done"}
              /\ ProcessedAll(g) \/ ~mounted[g]]_vars

\* A frame has run in the mounted component: every origin has its marker
\* and the first origin, whose request failed, has no person.
C26_Witness ==
    /\ ticks = 1
    /\ mounted[1]
    /\ ProcessedAll(1)
    /\ peopleRef = <<2>>
    /\ requests.count = 2

\* C29: whatever the stores file holds and whatever the directions
\* provider answers, no person of peopleRef.current has its own home as
\* targetStore.
C29_NoSentinelTarget ==
    \A k \in DOMAIN peopleRef :
        persons[peopleRef[k]].targetStore # persons[peopleRef[k]].home


(***************************************************************************)
(* The animation left to run for ever: one person as in SpecAnim, no       *)
(* reloadAndReroute, no cleanup.  Every frame requests the next (line      *)
(* 485), and the browser runs a requested frame in the end: the frame is   *)
(* weakly fair.  Frames are not counted in ticks here; anim keeps how many *)
(* frames have run since the person last turned round (since), how many    *)
(* frames that turn came after the one before it (last), and whether the   *)
(* person has turned at all (flips, 0 to 2).                               *)
(***************************************************************************)
LiveStart(person) ==
    [start |-> <<person>>, flips |-> 0, since |-> 0, last |-> 0]

LiveInit ==
    /\ \E progress \in AnimProgress, isReturning \in BOOLEAN, route \in AnimRoutes :
          /\ persons = <<AnimPerson(progress, isReturning, route)>>
          /\ anim = LiveStart(AnimPerson(progress, isReturning, route))
    /\ AnimMounted

LiveTick ==
    /\ \E f \in frames, roundsBelow \in [DOMAIN persons -> BOOLEAN] :
          AnimateFrame(f, roundsBelow)
    /\ anim' = IF persons'[1].isReturning # persons[1].isReturning
               THEN [anim EXCEPT !.flips = Min(@ + 1, 2), !.since = 0,
                                 !.last = anim.since + 1]
               ELSE [anim EXCEPT !.since = Min(@ + 1, TicksPerCrossing + 2)]
    /\ UNCHANGED << clock, gen, mounted, init, reload, call, peopleRef,
                    routeCacheRef, lastRequestRef, loading, ticks, requests,
                    lastRet, obtained, client, fn >>

LiveNext == LiveTick
SpecLive == LiveInit /\ [][LiveNext]_vars /\ WF_vars(LiveTick)

\* C30 as stated: a person with a valid route turns round again and again
\* for ever, and each turn comes within TicksPerCrossing (1 / FIXED_SPEED)
\* frames of the one before it (or of the start).
C30_FlipsWithinCrossing ==
    Len(persons[1].route) >= 2 =>
        /\ []<>(persons[1].isReturning)
        /\ []<>(~persons[1].isReturning)
        /\ [](anim.since < TicksPerCrossing)

\* C30 amended: a person with a valid route turns round again and again
\* for ever, and each turn comes within TicksPerCrossing + 1 frames of the
\* one before it (or of the start): from progress 0 the sum of
\* TicksPerCrossing increments can stay one rounding error below 1.
C30_FlipsWithinCrossingPlusOne ==
    Len(persons[1].route) >= 2 =>
        /\ []<>(persons[1].isReturning)
        /\ []<>(~persons[1].isReturning)
        /\ [](anim.since <= TicksPerCrossing)
        /\ [](anim.flips >= 1 => anim.last <= TicksPerCrossing + 1)

\* The person has turned round twice, the second time TicksPerCrossing + 1
\* frames after the first.
C30_Witness ==
    /\ Len(persons[1].route) >= 2
    /\ anim.flips = 2
    /\ anim.last = TicksPerCrossing + 1
    /\ anim.since = 0
    /\ persons[1].progress = 0


(***************************************************************************)
(* The animate of the component at lines 28-324 (lines 246-311).  Each     *)
(* frame maps peopleRef.current to a new array: a person with a valid      *)
(* route is replaced by a copy ({...person, progress, isReturning}), and   *)
(* at the wrap getRoute is called without being awaited, its callback      *)
(* holding the person object the frame was given.  client.pending are the  *)
(* getRoute promises not yet resolved, lastRet what the last one brought.  *)
(***************************************************************************)
\* person.progress + 0.001, in units of 1/ONE
RetryTickStep == 10
\* Frames run in one behaviour of this animate.
MaxSwapTicks == 6
\* Math.random() for progress, a few frames before the wrap.
SwapProgress == {9945, 9955, 9965, 9975, 9985, 9995}

\* The body of the map callback for one person object: whether the person
\* is replaced by a copy, the copy, where the marker is put, and the
\* getRoute call made, if any (guarded: its callback tests the length).
retryAnimatePerson(person) ==
    LET sum    == person.progress + RetryTickStep
        wraps  == sum >= ONE
        flag   == IF wraps THEN ~person.isReturning ELSE person.isReturning
    IN  IF Len(person.route) < 2
        THEN [copied |-> FALSE, moved |-> FALSE,
              position |-> along(person.route, 0), person |-> person,
              asks |-> TRUE, guarded |-> FALSE,
              start |-> IF person.isReturning THEN person.targetStore
                                              ELSE person.home,
              end   |-> IF person.isReturning THEN person.home
                                              ELSE person.targetStore]
        ELSE [copied |-> TRUE, moved |-> TRUE,
              position |-> along(Walked(person), person.progress),
              person |-> [person EXCEPT !.progress = IF wraps THEN 0 ELSE sum,
                                        !.isReturning = flag],
              asks |-> wraps, guarded |-> TRUE,
              start |-> IF flag THEN person.targetStore ELSE person.home,
              end   |-> IF flag THEN person.home ELSE person.targetStore]

\* What a getRoute call of lines 74-137 resolves with, and the cache it
\* leaves, when its requests come to outcome (a failed first request and
\* its retry taken together).
RetryResolved(cache, start, end, outcome) ==
    IF CacheHas(cache, cacheKey(start, end))
    THEN [route |-> cache[cacheKey(start, end)], cache |-> cache]
    ELSE IF RetryUsable(outcome, start, end)
    THEN [route |-> Coordinates(outcome, start, end),
          cache |-> CacheSet(cache, cacheKey(start, end),
                             Coordinates(outcome, start, end))]
    ELSE [route |-> RetryFallback(cache, start, end), cache |-> cache]

\* Lines 246-310: one frame.
SwapTick ==
    /\ ticks < MaxSwapTicks
    /\ \E f \in frames :
          LET old  == peopleRef[1]
              out  == retryAnimatePerson(persons[old])
              new  == Len(persons) + 1
              next == NewFrame(frames \ {f})
          IN  /\ persons' = IF out.copied THEN Extend(persons, new, out.person)
                                          ELSE persons
              /\ peopleRef' = IF out.copied THEN <<new>> ELSE <<old>>
              /\ markers' = IF out.moved
                            THEN [markers EXCEPT ![1].lngLat = out.position]
                            ELSE markers
              /\ client' = IF out.asks
                           THEN [client EXCEPT !.pending = @ \cup
                                    {[obj |-> old, start |-> out.start,
                                      end |-> out.end, guarded |-> out.guarded]}]
                           ELSE client
              /\ frames' = (frames \ {f}) \cup {next}
              /\ animationRef' = next
    /\ ticks' = ticks + 1
    /\ UNCHANGED << clock, gen, mounted, init, reload, call, routeCacheRef,
                    lastRequestRef, loading, requests, lastRet, obtained,
                    anim, fn >>

\* Lines 254-256 and 289-296: a getRoute promise resolves and its callback
\* runs on the person object it holds.
SwapResolve ==
    /\ \E cb \in client.pending, outcome \in Outcomes :
          LET res == RetryResolved(routeCacheRef, cb.start, cb.end, outcome)
          IN  /\ routeCacheRef' = res.cache
              /\ persons' = IF ~cb.guarded \/ Len(res.route) >= 2
                            THEN [persons EXCEPT ![cb.obj].route = res.route]
                            ELSE persons
              /\ lastRet' = [settled |-> TRUE, obj |-> cb.obj,
                             start |-> cb.start, end |-> cb.end,
                             route |-> res.route]
              /\ client' = [client EXCEPT !.pending = @ \ {cb}]
    /\ UNCHANGED << clock, gen, mounted, init, reload, call, markers,
                    peopleRef, lastRequestRef, animationRef, frames, loading,
                    ticks, requests, obtained, anim, fn >>

\* initialize (lines 184-243) has made one person, with the route getRoute
\* gave and cached for it, and has called animate.
SwapInit ==
    /\ \E progress \in SwapProgress, isReturning \in BOOLEAN :
          persons = <<AnimPerson(progress, isReturning,
                                 ProviderRoute(AnimHome, AnimStore))>>
    /\ routeCacheRef = CacheSet(<< >>, cacheKey(AnimHome, AnimStore),
                                ProviderRoute(AnimHome, AnimStore))
    /\ markers = <<NewMarker(AnimHome)>>
    /\ peopleRef = <<1>>
    /\ frames = {1}
    /\ animationRef = 1
    /\ clock = StartTime
    /\ gen = 1
    /\ mounted = [g \in Gens |-> g = 1]
    /\ init = [g \in Gens |-> IF g = 1 THEN [NoInit EXCEPT !.pc = "done"] ELSE NoInit]
    /\ reload = [k \in ReloadIds |-> NoReload]
    /\ call = [p \in Procs |-> NoCall]
    /\ lastRequestRef = 0
    /\ loading = FALSE
    /\ ticks = 0
    /\ requests = NoRequests
    /\ lastRet = [settled |-> FALSE, obj |-> 0, start |-> Origin,
                  end |-> Origin, route |-> << >>]
    /\ obtained = {}
    /\ client = [pending |-> {}]
    /\ anim = NoAnim
    /\ fn = NoFn

SwapNext == SwapTick \/ SwapResolve
SpecSwap == SwapInit /\ [][SwapNext]_vars

\* C32: when the promise of a getRoute call made at a wrap resolves, the
\* route it brings becomes the route of the person that
\* peopleRef.current holds under the same id at that moment.
C32_RouteReachesCurrentPerson ==
    [][\A cb \in client.pending :
          cb \notin client'.pending =>
              \A k \in DOMAIN peopleRef' :
                  persons'[peopleRef'[k]].id = persons[cb.obj].id
                      => persons'[peopleRef'[k]].route = lastRet'.route]_vars


(***************************************************************************)
(* initialize to its end.  Every task that can run does run: the loads of  *)
(* the two data files settle, every directions request settles, and a      *)
(* timer fires once its time has come.  Time passes only while a timer is  *)
(* waiting for it.                                                         *)
(***************************************************************************)
\* The times at which the timers that are set will fire.
Wakes ==
    {call[p].wake : p \in {q \in Procs : call[q].pc = "timer"}}
        \cup {init[g].wake : g \in {h \in Gens : init[h].pc \in {"pace", "finish"}}}

\* Time passes until the next timer is due.
TermAdvance ==
    /\ Wakes # {}
    /\ \A w \in Wakes : clock < w
    /\ clock' = clock + TimeStep
    /\ UNCHANGED << gen, mounted, init, reload, call, persons, markers,
                    peopleRef, routeCacheRef, lastRequestRef, animationRef,
                    frames, loading, ticks, requests, lastRet, obtained,
                    client, anim, fn >>

TermNext ==
    \/ Mount
    \/ Unmount
    \/ \E g \in Gens : InitOrigins(g)
    \/ \E g \in Gens : InitStoresFrom(g, StoreFiles)
    \/ \E g \in Gens : GrSend(InitProc(g))
    \/ \E g \in Gens : InitRouteSettled(g)
    \/ \E g \in Gens : InitPaced(g)
    \/ \E g \in Gens : InitFinish(g)
    \/ Frame
    \/ TermAdvance

TermFair ==
    /\ WF_vars(Mount)
    /\ WF_vars(TermAdvance)
    /\ \A g \in Gens :
          /\ WF_vars(InitOrigins(g))
          /\ WF_vars(InitStoresFrom(g, StoreFiles))
          /\ WF_vars(GrSend(InitProc(g)))
          /\ WF_vars(InitRouteSettled(g))
          /\ WF_vars(InitPaced(g))
          /\ WF_vars(InitFinish(g))

SpecTerm == LoadInit /\ [][TermNext]_vars /\ TermFair

minLng == -771197
maxLng == -769090
minLat == 387916
maxLat == 389955

\* An isPointInDC that tests the longitude only.
isPointInDC_lngOnly(point) ==
    /\ point[1] >= minLng
    /\ point[1] <= maxLng

isPointInDC(point) ==
    /\ point[1] >= minLng
    /\ point[1] <= maxLng
    /\ point[2] >= minLat
    /\ point[2] <= maxLat

\* /data/Census_Tracts_in_2020.geojson: an L-shaped tract inside the
\* bounds, a tract across the western bound with its centroid on it, and a
\* tract south of the bounds.
Tracts ==
    << [GEOID |-> "L",
        ring  |-> << <<-770900, 388000>>, <<-770500, 388000>>,
                     <<-770500, 388200>>, <<-770700, 388200>>,
                     <<-770700, 388400>>, <<-770900, 388400>> >>,
        parts |-> { <<-770900, 388000, -770500, 388200>>,
                    <<-770900, 388200, -770700, 388400>> }],
       [GEOID |-> "W",
        ring  |-> << <<-771397, 388000>>, <<-770997, 388000>>,
                     <<-770997, 388200>>, <<-771397, 388200>> >>,
        parts |-> { <<-771397, 388000, -770997, 388200>> }],
       [GEOID |-> "S",
        ring  |-> << <<-770900, 387500>>, <<-770700, 387500>>,
                     <<-770700, 387700>>, <<-770900, 387700>> >>,
        parts |-> { <<-770900, 387500, -770700, 387700>> }] >>

Least(S) == CHOOSE x \in S : \A y \in S : x <= y
Greatest(S) == CHOOSE x \in S : \A y \in S : x >= y

RECURSIVE SumTo(_, _, _)
SumTo(ring, axis, k) ==
    IF k = 0 THEN 0 ELSE ring[k][axis] + SumTo(ring, axis, k - 1)

\* turf.bbox(tract.geometry): [minX, minY, maxX, maxY] of the vertices.
bbox(tract) ==
    << Least({tract.ring[k][1] : k \in DOMAIN tract.ring}),
       Least({tract.ring[k][2] : k \in DOMAIN tract.ring}),
       Greatest({tract.ring[k][1] : k \in DOMAIN tract.ring}),
       Greatest({tract.ring[k][2] : k \in DOMAIN tract.ring}) >>

\* turf.centroid(tract.geometry): the mean of the vertices.
centroid(tract) ==
    << SumTo(tract.ring, 1, Len(tract.ring)) \div Len(tract.ring),
       SumTo(tract.ring, 2, Len(tract.ring)) \div Len(tract.ring) >>

\* turf.booleanPointInPolygon(point, tract.geometry), the boundary counted
\* as inside.
booleanPointInPolygon(point, tract) ==
    \E r \in tract.parts :
        /\ r[1] <= point[1] /\ point[1] <= r[3]
        /\ r[2] <= point[2] /\ point[2] <= r[4]

\* What turf.randomPoint(1, {bbox}) can give: the corners of the box and
\* its middle.
randomPoint(box) ==
    { <<box[1], box[2]>>, <<box[3], box[2]>>, <<box[1], box[4]>>,
      <<box[3], box[4]>>,
      <<(box[1] + box[3]) \div 2, (box[2] + box[4]) \div 2>> }

\* An Accepted that does not test the polygon.
Accepted_boxOnly(coords, tract) == isPointInDC(coords)

\* Lines 61-64: the sampled point is taken.
Accepted(coords, tract) ==
    isPointInDC(coords) /\ booleanPointInPolygon(coords, tract)

\* Lines 50-72, as the set of the points a call can return.
generateValidPointInTract(tract) ==
    {coords \in randomPoint(bbox(tract)) : Accepted(coords, tract)}
        \cup {centroid(tract)}

(***************************************************************************)
(* generateValidPointInTract on its own, one pass of its while loop per    *)
(* step.  fn holds the call: the tract, the local `attempts`, the number   *)
(* of points drawn, and what was returned.                                 *)
(***************************************************************************)
maxAttempts == 50

PointInit ==
    /\ ComponentInit
    /\ client = NoClient
    /\ anim = NoAnim
    /\ \E t \in DOMAIN Tracts :
          fn = [tract |-> Tracts[t], attempts |-> 0, drawn |-> 0,
                done |-> FALSE, sampled |-> FALSE, result |-> Origin]

\* Lines 54-67: one pass of the loop.
PointAttempt ==
    /\ ~fn.done
    /\ fn.attempts < maxAttempts
    /\ \E coords \in randomPoint(bbox(fn.tract)) :
          IF Accepted(coords, fn.tract)
          THEN fn' = [fn EXCEPT !.drawn = @ + 1, !.done = TRUE,
                                !.sampled = TRUE, !.result = coords]
          ELSE fn' = [fn EXCEPT !.drawn = @ + 1, !.attempts = @ + 1]
    /\ UNCHANGED << clock, gen, mounted, init, reload, call, persons, markers,
                    peopleRef, routeCacheRef, lastRequestRef, animationRef,
                    frames, loading, ticks, requests, lastRet, obtained,
                    client, anim >>

\* Lines 69-71: the loop is left without a point.
PointCentroid ==
    /\ ~fn.done
    /\ fn.attempts >= maxAttempts
    /\ fn' = [fn EXCEPT !.done = TRUE, !.result = centroid(fn.tract)]
    /\ UNCHANGED << clock, gen, mounted, init, reload, call, persons, markers,
                    peopleRef, routeCacheRef, lastRequestRef, animationRef,
                    frames, loading, ticks, requests, lastRet, obtained,
                    client, anim >>

PointNext == PointAttempt \/ PointCentroid
SpecPoint == PointInit /\ [][PointNext]_vars /\ WF_vars(PointNext)

\* C40: a call draws at most maxAttempts points and returns; what it
\* returns is a point it drew that lies inside the DC bounds and inside the
\* tract's polygon, or else the tract's centroid.
C40_PointOrCentroid ==
    /\ [](fn.drawn <= maxAttempts)
    /\ [](fn.done =>
             \/ /\ fn.sampled
                /\ fn.result \in randomPoint(bbox(fn.tract))
                /\ isPointInDC(fn.result)
                /\ booleanPointInPolygon(fn.result, fn.tract)
             \/ /\ ~fn.sampled
                /\ fn.drawn = maxAttempts
                /\ fn.result = centroid(fn.tract))
    /\ <>fn.done

\* The call for the tract south of the bounds has drawn maxAttempts points,
\* none of them good, and has returned the centroid, which is outside too.
C40_Witness ==
    /\ fn.done
    /\ fn.tract.GEOID = "S"
    /\ fn.drawn = maxAttempts
    /\ fn.result = centroid(fn.tract)
    /\ ~isPointInDC(fn.result)


(***************************************************************************)
(* initialize of the tract-weighted component (lines 161-244), from the    *)
(* loop over the tracts on.  persons is the array newPeople; init is the   *)
(* position in the two loops; fn holds what the data files gave; lastRet   *)
(* is the candidate (home, targetStore) made last; client counts the       *)
(* getRoute calls.                                                         *)
(***************************************************************************)
\* const totalPeopleToCreate = 200, scaled down.
totalPeopleToCreate == 3
\* pop_percent is read in eighths.
PercentUnit == 8

\* /data/cleaned_census_tracts.csv: pop_percent of the three tracts, in
\* eighths (a tract without a row counts 0): shares that add up to 1,
\* shares that each round up, every tract at 1, and a tract at 0.
WeightSets == { <<4, 4, 0>>, <<3, 3, 3>>, <<8, 8, 8>>, <<1, 0, 8>> }

\* /data/Grocery_Store_Locations.geojson: no store, one store inside the
\* bounds, or that one and a store west of the bounds.
TractStoreSets ==
    { << >>,
      << Store(<<-770900, 388100>>) >>,
      << Store(<<-770900, 388100>>), Store(<<-771300, 388100>>) >> }

\* progress: Math.random(), isReturning: Math.random() > 0.5
TractDraws == { [progress |-> 0, isReturning |-> FALSE],
                [progress |-> 5000, isReturning |-> TRUE] }

\* Lines 139-159: nearestStore starts as null, and the point itself is
\* returned when no store was found.
findNearestStoreOrPoint(point, stores) ==
    LET nearestStore == NearestLoop(point, stores, 1, << >>, Infinity)
    IN  IF nearestStore = << >> THEN point ELSE nearestStore

\* Math.round(popPercent * totalPeopleToCreate)
tractPeople(popPercent) ==
    (2 * popPercent * totalPeopleToCreate + PercentUnit) \div (2 * PercentUnit)

\* An inner loop that runs tractPeople times whatever newPeople holds.
InnerLoopRuns_noCap(i, people, length) == i < people

\* Lines 194-198: the condition of the inner loop.
InnerLoopRuns(i, people, length) ==
    i < people /\ length < totalPeopleToCreate

\* Lines 210-238: the marker is made and the person is pushed.
TractPush(home, targetStore, route, draw) ==
    /\ markers' = Append(markers, NewMarker(home))
    /\ persons' = Append(persons,
           [id |-> <<"person", Len(persons)>>, marker |-> Len(markers) + 1,
            home |-> home, targetStore |-> targetStore,
            progress |-> draw.progress, isReturning |-> draw.isReturning,
            route |-> route, tractId |-> Tracts[init.t].GEOID])

\* Lines 194-208: one pass of the inner loop up to the await of getRoute
\* (and beyond it when the cache has the route).
TractCandidate ==
    /\ init.pc = "inner"
    /\ init.t <= Len(Tracts)
    /\ InnerLoopRuns(init.i, tractPeople(fn.weights[init.t]), Len(persons))
    /\ \E home \in generateValidPointInTract(Tracts[init.t]),
          draw \in TractDraws :
          LET targetStore == findNearestStoreOrPoint(home, fn.stores)
              key         == cacheKey(home, targetStore)
          IN  /\ lastRet' = [n |-> lastRet.n + 1, home |-> home,
                             targetStore |-> targetStore]
              /\ IF ~isPointInDC(home) \/ ~isPointInDC(targetStore)
                 THEN /\ init' = [init EXCEPT !.i = @ + 1]
                      /\ UNCHANGED << persons, markers, client >>
                 ELSE IF CacheHas(routeCacheRef, key)
                 THEN /\ TractPush(home, targetStore, routeCacheRef[key], draw)
                      /\ init' = [init EXCEPT !.i = @ + 1]
                      /\ client' = [client EXCEPT !.calls = @ + 1]
                 ELSE /\ init' = [init EXCEPT !.pc = "route", !.home = home,
                                              !.targetStore = targetStore]
                      /\ client' = [client EXCEPT !.calls = @ + 1]
                      /\ UNCHANGED << persons, markers >>
    /\ UNCHANGED << clock, gen, mounted, reload, call, peopleRef,
                    routeCacheRef, lastRequestRef, animationRef, frames,
                    loading, ticks, requests, obtained, anim, fn >>

\* Lines 208-238: getRoute has returned.
TractRouteSettled ==
    /\ init.pc = "route"
    /\ \E outcome \in Outcomes, draw \in TractDraws :
          LET res == RetryResolved(routeCacheRef, init.home, init.targetStore,
                                   outcome)
          IN  /\ routeCacheRef' = res.cache
              /\ TractPush(init.home, init.targetStore, res.route, draw)
    /\ init' = [init EXCEPT !.pc = "inner", !.i = @ + 1]
    /\ UNCHANGED << clock, gen, mounted, reload, call, peopleRef,
                    lastRequestRef, animationRef, frames, loading, ticks,
                    requests, lastRet, obtained, client, anim, fn >>

\* Lines 187-198: the inner loop is over (or tractPeople is 0); on to the
\* next tract.
TractLeave ==
    /\ init.pc = "inner"
    /\ init.t <= Len(Tracts)
    /\ ~InnerLoopRuns(init.i, tractPeople(fn.weights[init.t]), Len(persons))
    /\ init' = [init EXCEPT !.t = @ + 1, !.i = 0]
    /\ UNCHANGED << clock, gen, mounted, reload, call, persons, markers,
                    peopleRef, routeCacheRef, lastRequestRef, animationRef,
                    frames, loading, ticks, requests, lastRet, obtained,
                    client, anim, fn >>

\* Lines 242-243: peopleRef.current = newPeople; animate().
TractFinish ==
    /\ init.pc = "inner"
    /\ init.t > Len(Tracts)
    /\ init' = [init EXCEPT !.pc = "done"]
    /\ peopleRef' = [k \in 1..Len(persons) |-> k]
    /\ frames' = {1}
    /\ animationRef' = 1
    /\ UNCHANGED << clock, gen, mounted, reload, call, persons, markers,
                    routeCacheRef, lastRequestRef, loading, ticks, requests,
                    lastRet, obtained, client, anim, fn >>

TractInit ==
    /\ \E weights \in WeightSets, stores \in TractStoreSets :
          fn = [weights |-> weights, stores |-> stores]
    /\ init = [pc |-> "inner", t |-> 1, i |-> 0, home |-> Origin,
               targetStore |-> Origin]
    /\ lastRet = [n |-> 0, home |-> Origin, targetStore |-> Origin]
    /\ client = [calls |-> 0]
    /\ persons = << >>
    /\ markers = << >>
    /\ peopleRef = << >>
    /\ routeCacheRef = << >>
    /\ frames = {}
    /\ animationRef = 0
    /\ clock = StartTime
    /\ gen = 1
    /\ mounted = [g \in Gens |-> g = 1]
    /\ reload = [k \in ReloadIds |-> NoReload]
    /\ call = [p \in Procs |-> NoCall]
    /\ lastRequestRef = 0
    /\ loading = FALSE
    /\ ticks = 0
    /\ requests = NoRequests
    /\ obtained = {}
    /\ anim = NoAnim

TractNext == TractCandidate \/ TractRouteSettled \/ TractLeave \/ TractFinish
SpecTract == TractInit /\ [][TractNext]_vars

\* The DC bounding box of the specification: longitude -77.1197 to
\* -76.909, latitude 38.7916 to 38.9955, the bounds included.
WithinDC(point) ==
    /\ point[1] \in minLng..maxLng
    /\ point[2] \in minLat..maxLat

\* C36: every person in newPeople has its home and its targetStore inside
\* the DC bounds, and a candidate with either point outside them is passed
\* over: no person, no marker, and no getRoute call is made for it.
C36_OnlyInsideDC ==
    /\ [](\A k \in DOMAIN persons :
             WithinDC(persons[k].home) /\ WithinDC(persons[k].targetStore))
    /\ [][(lastRet'.n # lastRet.n
            /\ (~WithinDC(lastRet'.home) \/ ~WithinDC(lastRet'.targetStore)))
               => /\ persons' = persons
                  /\ markers' = markers
                  /\ client'.calls = client.calls
                  /\ init'.pc = "inner"]_vars

\* A person has been made, and the candidate after it, with its home
\* inside the bounds and the nearest store outside them, was passed over.
C36_Witness ==
    /\ Len(persons) >= 1
    /\ Len(markers) = Len(persons)
    /\ client.calls = Len(persons)
    /\ lastRet.n > Len(persons)
    /\ WithinDC(lastRet.home)
    /\ ~WithinDC(lastRet.targetStore)
    /\ init.pc = "inner"

\* C37: newPeople never holds more than totalPeopleToCreate persons, and
\* no more markers than that are made.
C37_AtMostTotal ==
    /\ Len(persons) <= totalPeopleToCreate
    /\ Len(markers) <= totalPeopleToCreate

\* initialize has ended with newPeople full although the tracts' rounded
\* shares add up to more than totalPeopleToCreate.
C37_Witness ==
    /\ init.pc = "done"
    /\ Len(peopleRef) = totalPeopleToCreate
    /\ tractPeople(fn.weights[1]) + tractPeople(fn.weights[2])
           + tractPeople(fn.weights[3]) > totalPeopleToCreate


(***************************************************************************)
(* The save-coordinates route (src/app/api/save-coordinates/route.ts).     *)
(* Every POST runs the handler as its own chain of tasks; the handlers     *)
(* share nothing but the data file.  fn is the text of the file; client    *)
(* holds, per request, where its handler is, the object `data` it has      *)
(* parsed, and its answer.                                                 *)
(***************************************************************************)
\* Requests in one behaviour.
MaxPosts == 2
Posts == 1..MaxPosts
\* The coordinates a request body can carry.
SaveCoordinates == { <<1, 2>>, <<3, 4>> }

\* JSON.stringify(data, null, 2), the features array as the text of its
\* numbers in order.
RECURSIVE Stringify(_)
Stringify(features) ==
    IF features = << >> THEN << >>
    ELSE <<NumStr(features[1].coordinates[1]), NumStr(features[1].coordinates[2])>>
             \o Stringify(Tail(features))

\* The value of a number's text.
RECURSIVE ParseDigits(_, _)
ParseDigits(text, acc) ==
    IF text = << >> THEN acc
    ELSE ParseDigits(Tail(text),
                     10 * acc + (CHOOSE d \in 0..9 : DigitChar[d + 1] = Head(text)))

ParseNum(text) ==
    IF Head(text) = "-" THEN 0 - ParseDigits(Tail(text), 0)
                        ELSE ParseDigits(text, 0)

\* JSON.parse(fileContent).features
RECURSIVE Parse(_)
Parse(text) ==
    IF text = << >> THEN << >>
    ELSE <<[coordinates |-> <<ParseNum(text[1]), ParseNum(text[2])>>]>>
             \o Parse(Tail(Tail(text)))

NoPost == [pc |-> "idle", coordinates |-> Origin, data |-> << >>,
           response |-> "none"]

\* Line 7: a request has come in and its body is parsed; line 11 starts
\* to read the file.
PostReceived(h) ==
    /\ client[h].pc = "idle"
    /\ \E coordinates \in SaveCoordinates :
          client' = [client EXCEPT ![h].pc = "read",
                                   ![h].coordinates = coordinates]
    /\ UNCHANGED << clock, gen, mounted, init, reload, call, persons, markers,
                    peopleRef, routeCacheRef, lastRequestRef, animationRef,
                    frames, loading, ticks, requests, lastRet, obtained,
                    anim, fn >>

\* Lines 11-20: readFile has settled; the text as it is now is parsed, the
\* feature is pushed, and writeFile is started with the new text.  Lines
\* 23-25: a failed read is answered with status 500.
PostRead(h) ==
    /\ client[h].pc = "read"
    /\ \E ok \in BOOLEAN :
          client' = IF ok
                    THEN [client EXCEPT ![h].pc = "write",
                              ![h].data = Append(Parse(fn),
                                  [coordinates |-> client[h].coordinates])]
                    ELSE [client EXCEPT ![h].pc = "done",
                                        ![h].response = "error"]
    /\ UNCHANGED << clock, gen, mounted, init, reload, call, persons, markers,
                    peopleRef, routeCacheRef, lastRequestRef, animationRef,
                    frames, loading, ticks, requests, lastRet, obtained,
                    anim, fn >>

\* Lines 20-25: writeFile has settled: the file holds the text it was
\* given and the answer is { success: true }, or the write failed and the
\* answer has status 500.
PostWritten(h) ==
    /\ client[h].pc = "write"
    /\ \E ok \in BOOLEAN :
          IF ok
          THEN /\ fn' = Stringify(client[h].data)
               /\ client' = [client EXCEPT ![h].pc = "done",
                                           ![h].response = "success"]
          ELSE /\ fn' = fn
               /\ client' = [client EXCEPT ![h].pc = "done",
                                           ![h].response = "error"]
    /\ UNCHANGED << clock, gen, mounted, init, reload, call, persons, markers,
                    peopleRef, routeCacheRef, lastRequestRef, animationRef,
                    frames, loading, ticks, requests, lastRet, obtained,
                    anim >>

\* public/data/blank.geojson with an empty features array, and no request.
SaveInit ==
    /\ ComponentInit
    /\ anim = NoAnim
    /\ fn = Stringify(<< >>)
    /\ client = [h \in Posts |-> NoPost]

SaveNext ==
    \/ \E h \in Posts : PostReceived(h)
    \/ \E h \in Posts : PostRead(h)
    \/ \E h \in Posts : PostWritten(h)
SpecSave == SaveInit /\ [][SaveNext]_vars

\* C38: when every request has been answered, the features array of the
\* file holds one feature for every request answered with success, with
\* that request's coordinates.
C38_NoLostSave ==
    (\A h \in Posts : client[h].pc = "done") =>
        /\ Len(Parse(fn)) = Cardinality({h \in Posts : client[h].response = "success"})
        /\ \A h \in Posts :
              client[h].response = "success" =>
                  \E k \in DOMAIN Parse(fn) :
                      Parse(fn)[k].coordinates = client[h].coordinates


(***************************************************************************)
(* SpatialIndex (src/unnamed/part_008).  fn is one index: its current      *)
(* store features, its storeCache, and the last query with its result.     *)
(* A store feature is its properties.id and its coordinates; Mapbox.tsx    *)
(* (line 673) gives every store its STORENAME as id, and one name is       *)
(* carried by every shop of a chain.                                       *)
(***************************************************************************)
\* update() calls in one behaviour.
MaxUpdates == 2

StoreFeature(id, coordinates) == [id |-> id, coordinates |-> coordinates]

\* Store sets the index is built from or updated with: two shops of one
\* chain; shops with names of their own; a shop without a name next to a
\* named one; and the chain's shop moved.
IndexStoreSets ==
    { << StoreFeature("Safeway", <<1, 0>>), StoreFeature("Safeway", <<2, 1>>) >>,
      << StoreFeature("Giant", <<4, 0>>), StoreFeature("Yes", <<0, 2>>) >>,
      << StoreFeature("", <<0, 1>>), StoreFeature("Giant", <<4, 0>>) >>,
      << StoreFeature("Safeway", <<5, 1>>) >> }

SearchPoints == { <<0, 0>>, <<5, 0>>, <<2, 2>> }
\* The radius of a query, and its square.
Radius == 3
RadiusSquared == Radius * Radius

\* Lines 26-37: cacheStores, from feature k on.
RECURSIVE cacheStores(_, _, _)
cacheStores(cache, stores, k) ==
    IF k > Len(stores) THEN cache
    ELSE IF stores[k].id = "" THEN cacheStores(cache, stores, k + 1)
    ELSE cacheStores(Extend(cache, stores[k].id,
                            [id |-> stores[k].id,
                             coordinates |-> stores[k].coordinates]),
                     stores, k + 1)

\* nearestPoint(searchFeature, this.stores): the index of the first
\* feature at the least distance.
RECURSIVE nearestPoint(_, _, _, _, _)
nearestPoint(searchPoint, stores, k, best, minDist) ==
    IF k > Len(stores) THEN best
    ELSE LET d == distance(searchPoint, stores[k].coordinates)
         IN  IF d < minDist
             THEN nearestPoint(searchPoint, stores, k + 1, k, d)
             ELSE nearestPoint(searchPoint, stores, k + 1, best, minDist)

\* Lines 65-70, squared: calculateDCDistance(a, b) > radius.
BeyondRadius(a, b) == distance(a, b) > RadiusSquared

\* Lines 45-63.
queryNearestStores(index, searchPoint) ==
    LET nearestStores == index.stores[nearestPoint(searchPoint, index.stores,
                                                   1, 1, Infinity)]
    IN  IF nearestStores.id = "" THEN << >>
        ELSE IF nearestStores.id \notin DOMAIN index.storeCache THEN << >>
        ELSE LET store == index.storeCache[nearestStores.id]
             IN  IF BeyondRadius(searchPoint, store.coordinates) THEN << >>
                 ELSE <<store>>

\* Lines 20-24: new SpatialIndex(stores, residents).
IndexInit ==
    /\ ComponentInit
    /\ client = NoClient
    /\ anim = NoAnim
    /\ \E stores \in IndexStoreSets :
          fn = [stores |-> stores, storeCache |-> cacheStores(<< >>, stores, 1),
                updates |-> 0, queried |-> FALSE, searchPoint |-> Origin,
                result |-> << >>]

\* Lines 39-43: update(stores, residents).
IndexUpdate ==
    /\ fn.updates < MaxUpdates
    /\ \E stores \in IndexStoreSets :
          fn' = [fn EXCEPT !.stores = stores,
                           !.storeCache = cacheStores(fn.storeCache, stores, 1),
                           !.updates = @ + 1,
                           !.queried = FALSE]
    /\ UNCHANGED << clock, gen, mounted, init, reload, call, persons, markers,
                    peopleRef, routeCacheRef, lastRequestRef, animationRef,
                    frames, loading, ticks, requests, lastRet, obtained,
                    client, anim >>

\* A call of queryNearestStores.
IndexQuery ==
    /\ \E searchPoint \in SearchPoints :
          fn' = [fn EXCEPT !.queried = TRUE, !.searchPoint = searchPoint,
                           !.result = queryNearestStores(fn, searchPoint)]
    /\ UNCHANGED << clock, gen, mounted, init, reload, call, persons, markers,
                    peopleRef, routeCacheRef, lastRequestRef, animationRef,
                    frames, loading, ticks, requests, lastRet, obtained,
                    client, anim >>

IndexNext == IndexUpdate \/ IndexQuery
SpecIndex == IndexInit /\ [][IndexNext]_vars

\* C39: a query returns no store or one store; a store it returns is in
\* the current store set, no store of that set is nearer to the search
\* point, and it is within the radius.
C39_NearestOfCurrentSet ==
    fn.queried =>
        /\ Len(fn.result) <= 1
        /\ Len(fn.result) = 1 =>
              /\ \E k \in DOMAIN fn.stores :
                    /\ fn.stores[k].id = fn.result[1].id
                    /\ fn.stores[k].coordinates = fn.result[1].coordinates
              /\ \A j \in DOMAIN fn.stores :
                    distance(fn.searchPoint, fn.result[1].coordinates)
                        <= distance(fn.searchPoint, fn.stores[j].coordinates)
              /\ distance(fn.searchPoint, fn.result[1].coordinates)
                    <= RadiusSquared

====
